---- MODULE Spec2Model ----
(***************************************************************************)
(* BioCUP hybrid search: predict_primary_site (backend/search/search.py).  *)
(*                                                                         *)
(* One prediction is a sequential run: load and align the input arrays,    *)
(* then per input chunk a dense query, a sparse query, RRF fusion and the  *)
(* per-case reduction/aggregation, then final case scores, site scores,    *)
(* evidence, calibration and normalisation.  The vector backend is the     *)
(* environment: each query answers with a ranked list of corpus points     *)
(* that satisfy the chunk's filter, or fails.                              *)
(*                                                                         *)
(* Numbers.  Python floats are modelled as exact rationals on fixed        *)
(* scales, so rounding error is outside the model:                         *)
(*   RRF score            unit 1/RRFScale                                  *)
(*   contribution, totals unit 1/(RRFScale*WeightScale)                    *)
(*   final case score     ... * 1/(BonusScale*QualScale)                   *)
(*   calibrated site score ... * 1/PenaltyScale                            *)
(* A percentage is a reduced fraction <<num, den>> (num/den percent).      *)
(***************************************************************************)
EXTENDS Integers, Sequences, FiniteSets, TLC

\* ------------------------------------------------------------------------
\* Bounds of the model
\* ------------------------------------------------------------------------
MaxChunks == 3      \* at most this many rows in each input array
MaxHits == 2        \* at most this many points in one answer of the backend
MaxTotalHits == 3   \* at most this many points answered during one prediction

\* ------------------------------------------------------------------------
\* Program constants (search.py CONFIG)
\* ------------------------------------------------------------------------
K_DENSE == 80
K_SPARSE == 80
K_FUSED == 50
RRF_K == 60
MAX_CASES_PER_INPUT_CHUNK == 15
MAX_EVIDENCE_PER_SITE == 6

\* CONSISTENCY_BONUS = 0.20 = 1/5: the bonus factor is kept in fifths.
BonusScale == 5
CONSISTENCY_BONUS == 1
\* SECTION_WEIGHT values are kept in tenths.
WeightScale == 10
\* 1.15 = 23/20, 0.90 = 18/20: the section base of the quality boost, in 20ths.
QualScale == 20
\* The calibration penalty 0.75 = 3/4, and its threshold.
PenaltyScale == 4
CALIBRATION_PENALTY == 3
CALIBRATION_STRONG_MIN == 2
\* Evidence snippets keep the first 220 characters of the text.
SNIPPET_LEN == 220

\* ------------------------------------------------------------------------
\* Arithmetic helpers
\* ------------------------------------------------------------------------
RECURSIVE GCD(_, _)
GCD(a, b) == IF b = 0 THEN a ELSE GCD(b, a % b)

LCM(a, b) == (a \div GCD(a, b)) * b

Max(a, b) == IF a >= b THEN a ELSE b

Min(a, b) == IF a <= b THEN a ELSE b

RECURSIVE Pow(_, _)
Pow(b, e) == IF e = 0 THEN 1 ELSE b * Pow(b, e - 1)

\* The fraction n/d in lowest terms (d > 0).
Frac(n, d) == LET g == GCD(n, d) IN <<n \div g, d \div g>>

\* v / total * 100 in lowest terms (total > 0), reduced before multiplying.
Percent(v, total) ==
    LET f == Frac(v, total)
        g == GCD(100, f[2])
    IN  <<f[1] * (100 \div g), f[2] \div g>>

RECURSIVE SeqSum(_)
SeqSum(s) == IF s = <<>> THEN 0 ELSE Head(s) + SeqSum(Tail(s))

Range(s) == {s[k] : k \in 1..Len(s)}

Prefix(s, n) == SubSeq(s, 1, Min(n, Len(s)))

\* The position of x in seq (one-based).
Pos(seq, x) == CHOOSE n \in 1..Len(seq) : seq[n] = x

\* Python's sorted(items, key=..., reverse=True): descending by key, and
\* stable (items with equal keys keep their order).  key is a function
\* defined on the items.
RECURSIVE InsertDesc(_, _, _)
InsertDesc(sorted, x, key) ==
    IF sorted = <<>> THEN <<x>>
    ELSE IF key[Head(sorted)] >= key[x]
         THEN <<Head(sorted)>> \o InsertDesc(Tail(sorted), x, key)
         ELSE <<x>> \o sorted

RECURSIVE SortedDescFrom(_, _, _)
SortedDescFrom(done, rest, key) ==
    IF rest = <<>> THEN done
    ELSE SortedDescFrom(InsertDesc(done, Head(rest), key), Tail(rest), key)

SortedDesc(items, key) == SortedDescFrom(<<>>, items, key)

\* All sequences of distinct elements of S of length at most n.
RECURSIVE DistinctSeqs(_, _)
DistinctSeqs(S, n) ==
    IF n = 0 THEN {<<>>}
    ELSE LET shorter == DistinctSeqs(S, n - 1)
         IN  shorter \cup
             {s \in {Append(t, x) : t \in shorter, x \in S} :
                 \A a, b \in 1..Len(s) : a # b => s[a] # s[b]}

\* ------------------------------------------------------------------------
\* Section tables
\* ------------------------------------------------------------------------
\* str.upper() on the section names that occur.
Upper(s) ==
    CASE s = "ihc" -> "IHC"
      [] s = "synoptic" -> "SYNOPTIC"
      [] s = "diagnosis" -> "DIAGNOSIS"
      [] s = "lymph" -> "LYMPH"
      [] OTHER -> s

\* SECTION_WEIGHT, in tenths.
SECTION_WEIGHT ==
    [IHC |-> 24, DIAGNOSIS |-> 20, SYNOPTIC |-> 15, LYMPH_NODES |-> 12,
     MARGINS |-> 11, MICRO |-> 7, GROSS |-> 5, SPECIMEN |-> 3,
     GENERAL |-> 7, COMMENT |-> 6]

\* w_section: SECTION_WEIGHT.get((section or "GENERAL").upper(), 1.0)
w_section(section) ==
    LET sec == Upper(IF section = "" THEN "GENERAL" ELSE section)
    IN  IF sec \in DOMAIN SECTION_WEIGHT THEN SECTION_WEIGHT[sec] ELSE WeightScale

is_strong_section(sec) == Upper(sec) \in {"IHC", "DIAGNOSIS", "SYNOPTIC"}

\* ------------------------------------------------------------------------
\* The corpus held by the vector backend
\* ------------------------------------------------------------------------
\* A chunk text is kept as what the code reads of it: how many
\* GENERIC_PATTERNS and STRONG_PATTERNS occur in it, and its length.
Text(g, s, n) == [generic |-> g, strong |-> s, len |-> n]

\* GENERIC_PATTERNS and STRONG_PATTERNS, in the order of the source.
GENERIC_PATTERNS ==
    <<"negative for malignancy", "no tumor seen", "free of tumor",
      "margins negative", "resection margins negative",
      "lymph nodes negative", "no lymph node metastasis", "n0", "pno",
      "tumor size", "greatest dimension", "pt", "pn", "pm",
      "pathologic staging", "tnm",
      "specimen received", "submitted in toto", "gross description">>

STRONG_PATTERNS ==
    <<"ttf-1", "napsin a",
      "cdx2", "ck20", "satb2",
      "er", "pr", "her2", "gata3",
      "psa", "psap", "nkx3.1",
      "pax8", "wt1",
      "heppar-1", "arg1",
      "ck7", "ck5/6", "p63">>

\* str.lower() on one character.
LowerChar(c) ==
    CASE c = "A" -> "a" [] c = "B" -> "b" [] c = "C" -> "c" [] c = "D" -> "d"
      [] c = "E" -> "e" [] c = "F" -> "f" [] c = "G" -> "g" [] c = "H" -> "h"
      [] c = "I" -> "i" [] c = "J" -> "j" [] c = "K" -> "k" [] c = "L" -> "l"
      [] c = "M" -> "m" [] c = "N" -> "n" [] c = "O" -> "o" [] c = "P" -> "p"
      [] c = "Q" -> "q" [] c = "R" -> "r" [] c = "S" -> "s" [] c = "T" -> "t"
      [] c = "U" -> "u" [] c = "V" -> "v" [] c = "W" -> "w" [] c = "X" -> "x"
      [] c = "Y" -> "y" [] c = "Z" -> "z" [] OTHER -> c

\* str.lower()
RECURSIVE Lower(_)
Lower(str) ==
    IF Len(str) = 0 THEN ""
    ELSE LowerChar(SubSeq(str, 1, 1)) \o Lower(SubSeq(str, 2, Len(str)))

\* Python's "p in txt" on strings: p occurs in txt as a substring.
Contains(txt, p) ==
    \E k \in 1..(Len(txt) - Len(p) + 1) : SubSeq(txt, k, k + Len(p) - 1) = p

\* sum(1 for p in patterns if p in txt)
pattern_hits(patterns, txt) ==
    Cardinality({k \in 1..Len(patterns) : Contains(txt, patterns[k])})

\* What the code reads of the chunk text str.
TextOf(str) ==
    Text(pattern_hits(GENERIC_PATTERNS, Lower(str)),
         pattern_hits(STRONG_PATTERNS, Lower(str)),
         Len(str))

\* The empty payload {} (falsy in Python): every field absent.
EmptyPayload ==
    [case_id |-> "", primary_site |-> "", section |-> "",
     chunk_text |-> Text(0, 0, 0), has_ihc |-> FALSE, has_lymph |-> FALSE,
     has_margins |-> FALSE, is_admin_noise |-> FALSE]

Payload(case, site, sec, txt, ihc, lymph, noise) ==
    [case_id |-> case, primary_site |-> site, section |-> sec,
     chunk_text |-> txt, has_ihc |-> ihc, has_lymph |-> lymph,
     has_margins |-> FALSE, is_admin_noise |-> noise]

\* Point id -> payload.  Case A has two chunks (a strong and a weak section),
\* point 5 carries no case_id, point 6 is administrative noise.
Corpus ==
    [pid \in 1..6 |->
        CASE pid = 1 -> Payload("A", "lung", "DIAGNOSIS", Text(0, 0, 120), TRUE, FALSE, FALSE)
          [] pid = 2 -> Payload("A", "lung", "LYMPH_NODES", Text(0, 0, 300), FALSE, TRUE, FALSE)
          [] pid = 3 -> Payload("B", "lung", "IHC", Text(0, 0, 220), TRUE, FALSE, FALSE)
          [] pid = 4 -> Payload("C", "breast", "DIAGNOSIS", Text(0, 0, 221), TRUE, FALSE, FALSE)
          [] pid = 5 -> Payload("", "lung", "DIAGNOSIS", Text(0, 0, 40), FALSE, FALSE, FALSE)
          [] pid = 6 -> Payload("D", "breast", "DIAGNOSIS", Text(0, 0, 40), TRUE, TRUE, TRUE)]

\* The section of an input chunk, as stored in the meta table.
InputSections == {"ihc", "SYNOPTIC"}

\* The collection as the backend holds it during a run (point id -> payload).
VARIABLE corpus

\* ------------------------------------------------------------------------
\* Filters
\* ------------------------------------------------------------------------
\* A filter: the sections of must's MatchAny, the flag must requires to be
\* true ("" for none), and must_not is_admin_noise = 1.
Filter(secs, flag) == [sections |-> secs, flag |-> flag, not_noise |-> TRUE]

\* Mutant of build_filter_for_input_chunk: the section lists alone, without
\* the has_ihc / has_lymph / has_margins conditions.
build_filter_sections_only(input_section) ==
    LET sec == Upper(IF input_section = "" THEN "GENERAL" ELSE input_section)
    IN  CASE sec = "IHC" -> Filter({"IHC", "DIAGNOSIS"}, "")
          [] sec \in {"LYMPH_NODES", "LYMPH"} ->
                Filter({"LYMPH_NODES", "SYNOPTIC", "DIAGNOSIS"}, "")
          [] sec = "MARGINS" -> Filter({"MARGINS", "SYNOPTIC", "DIAGNOSIS"}, "")
          [] sec = "SYNOPTIC" ->
                Filter({"SYNOPTIC", "DIAGNOSIS", "MARGINS", "LYMPH_NODES"}, "")
          [] sec = "DIAGNOSIS" -> Filter({"DIAGNOSIS", "SYNOPTIC"}, "")
          [] OTHER ->
                Filter({"DIAGNOSIS", "SYNOPTIC", "IHC", "LYMPH_NODES", "MARGINS"}, "")

build_filter_for_input_chunk(input_section) ==
    LET sec == Upper(IF input_section = "" THEN "GENERAL" ELSE input_section)
    IN  CASE sec = "IHC" -> Filter({"IHC", "DIAGNOSIS"}, "has_ihc")
          [] sec \in {"LYMPH_NODES", "LYMPH"} ->
                Filter({"LYMPH_NODES", "SYNOPTIC", "DIAGNOSIS"}, "has_lymph")
          [] sec = "MARGINS" ->
                Filter({"MARGINS", "SYNOPTIC", "DIAGNOSIS"}, "has_margins")
          [] sec = "SYNOPTIC" ->
                Filter({"SYNOPTIC", "DIAGNOSIS", "MARGINS", "LYMPH_NODES"}, "")
          [] sec = "DIAGNOSIS" -> Filter({"DIAGNOSIS", "SYNOPTIC"}, "")
          [] OTHER ->
                Filter({"DIAGNOSIS", "SYNOPTIC", "IHC", "LYMPH_NODES", "MARGINS"}, "")

\* The backend's evaluation of a filter on a point's payload.
Matches(flt, payload) ==
    /\ payload.section \in flt.sections
    /\ flt.flag = "has_ihc" => payload.has_ihc
    /\ flt.flag = "has_lymph" => payload.has_lymph
    /\ flt.flag = "has_margins" => payload.has_margins
    /\ flt.not_noise => ~payload.is_admin_noise

\* Mutant of after_query: the call also clears the payload of the
\* administrative-noise points it filtered out.
after_query_purging(collection) ==
    [pid \in DOMAIN collection |->
        IF collection[pid].is_admin_noise THEN EmptyPayload ELSE collection[pid]]

\* client.query_points is a read: the collection after the call, answered or
\* failed, is the collection before it.
after_query(collection) == collection

\* The answers query_points can give: ranked lists of distinct points that
\* satisfy the filter, at most limit long.
QueryAnswers(flt, limit, room) ==
    DistinctSeqs({pid \in DOMAIN corpus : Matches(flt, corpus[pid])},
                 Min(Min(limit, MaxHits), room))

\* ------------------------------------------------------------------------
\* RRF fusion
\* ------------------------------------------------------------------------
\* The common denominator of the terms 1/(k + rank + 1), rank < MaxHits.
RECURSIVE LCMUpTo(_, _)
LCMUpTo(k, n) == IF n = 0 THEN 1 ELSE LCM(LCMUpTo(k, n - 1), k + n)

RRFScale == LCMUpTo(RRF_K, MaxHits)

\* Mutant of rrf_term: the rank taken one-based already (1 / (k + rank)).
rrf_term_rank_off(k, rank) == RRFScale \div (k + rank)

\* 1.0 / (k + rank + 1), rank zero-based.
rrf_term(k, rank) == RRFScale \div (k + rank + 1)

\* The sum of the terms of the positions where pid stands in points.
RankTerms(points, pid, k) ==
    SeqSum([n \in 1..Len(points) |->
                IF points[n] = pid THEN rrf_term(k, n - 1) ELSE 0])

rrf_fuse(dense_points, sparse_points, k) ==
    LET \* insertion order of the id2score dict
        seen == dense_points \o
                SelectSeq(sparse_points, LAMBDA p : p \notin Range(dense_points))
        id2score == [pid \in Range(seen) |->
                        RankTerms(dense_points, pid, k)
                        + RankTerms(sparse_points, pid, k)]
        id2payload == [pid \in {p \in Range(seen) : corpus[p] # EmptyPayload}
                          |-> corpus[pid]]
    IN  [fused_ids |-> SortedDesc(seen, id2score),
         id2score |-> id2score,
         id2payload |-> id2payload]

\* ------------------------------------------------------------------------
\* Python dicts: the keys in insertion order, and the values
\* ------------------------------------------------------------------------
EmptyDict == [keys |-> <<>>, val |-> <<>>]

Has(d, k) == k \in Range(d.keys)

Get(d, k, default) == IF Has(d, k) THEN d.val[k] ELSE default

Put(d, k, v) ==
    [keys |-> IF Has(d, k) THEN d.keys ELSE Append(d.keys, k),
     val |-> [x \in Range(d.keys) \cup {k} |-> IF x = k THEN v ELSE d.val[x]]]

\* sum(d.values())
DictSum(d) == SeqSum([n \in 1..Len(d.keys) |-> d.val[d.keys[n]]])

\* ------------------------------------------------------------------------
\* Per-chunk reduction: the best contribution of each case
\* ------------------------------------------------------------------------
\* The loop over fused_ids: st holds best_case_this_chunk and
\* best_payload_this_chunk.
RECURSIVE ReduceHits(_, _, _, _)
ReduceHits(st, ids, fuse, sec_w) ==
    IF ids = <<>> THEN st
    ELSE
      LET pid == Head(ids)
          payload == IF pid \in DOMAIN fuse.id2payload
                     THEN fuse.id2payload[pid] ELSE EmptyPayload
          cid == payload.case_id
          contrib == (IF pid \in DOMAIN fuse.id2score
                      THEN fuse.id2score[pid] ELSE 0) * sec_w
          next ==
            IF payload = EmptyPayload THEN st
            ELSE IF payload.primary_site = "" \/ payload.case_id = "" THEN st
            ELSE IF contrib > Get(st.best_case_this_chunk, cid, 0)
                 THEN [best_case_this_chunk |->
                           Put(st.best_case_this_chunk, cid, contrib),
                       best_payload_this_chunk |->
                           Put(st.best_payload_this_chunk, cid, payload)]
                 ELSE st
      IN  ReduceHits(next, Tail(ids), fuse, sec_w)

\* Mutant of best_per_case: every hit of a case adds to the case's
\* contribution of the chunk (no dedup).
RECURSIVE SumHits(_, _, _, _)
SumHits(st, ids, fuse, sec_w) ==
    IF ids = <<>> THEN st
    ELSE
      LET pid == Head(ids)
          payload == IF pid \in DOMAIN fuse.id2payload
                     THEN fuse.id2payload[pid] ELSE EmptyPayload
          cid == payload.case_id
          contrib == fuse.id2score[pid] * sec_w
          next ==
            IF payload.primary_site = "" \/ payload.case_id = "" THEN st
            ELSE [best_case_this_chunk |->
                      Put(st.best_case_this_chunk, cid,
                          Get(st.best_case_this_chunk, cid, 0) + contrib),
                  best_payload_this_chunk |->
                      Put(st.best_payload_this_chunk, cid, payload)]
      IN  SumHits(next, Tail(ids), fuse, sec_w)

best_per_case_summed(fused_ids, fuse, sec_w) ==
    SumHits([best_case_this_chunk |-> EmptyDict,
             best_payload_this_chunk |-> EmptyDict],
            fused_ids, fuse, sec_w)

best_per_case(fused_ids, fuse, sec_w) ==
    ReduceHits([best_case_this_chunk |-> EmptyDict,
                best_payload_this_chunk |-> EmptyDict],
               fused_ids, fuse, sec_w)

\* Mutant of top_cases: the sort without reverse=True, so the cut keeps the
\* cases with the lowest contributions.
top_cases_ascending(best_case_this_chunk, limit) ==
    Prefix(SortedDesc(best_case_this_chunk.keys,
                      [c \in Range(best_case_this_chunk.keys) |->
                          0 - best_case_this_chunk.val[c]]),
           limit)

\* sorted(best_case_this_chunk.items(), by contribution, reverse)[:limit],
\* as the case ids in that order.
top_cases(best_case_this_chunk, limit) ==
    Prefix(SortedDesc(best_case_this_chunk.keys, best_case_this_chunk.val), limit)

\* ------------------------------------------------------------------------
\* Cross-chunk aggregation
\* ------------------------------------------------------------------------
EmptyAcc ==
    [case_total_score |-> EmptyDict,
     case_supported_by_chunks |-> EmptyDict,
     case_best_payload |-> EmptyDict,
     case_best_score |-> EmptyDict,
     case_site |-> EmptyDict]

\* Mutant of aggregate_case: the best contribution and its payload are set
\* by the first chunk that retains the case and never replaced by a
\* better one.
aggregate_case_keeps_first(acc, i, cid, contrib, payload) ==
    LET site == payload.primary_site
        first == ~Has(acc.case_best_score, cid)
    IN  [case_supported_by_chunks |->
             Put(acc.case_supported_by_chunks, cid,
                 Get(acc.case_supported_by_chunks, cid, {}) \cup {i}),
         case_total_score |->
             Put(acc.case_total_score, cid,
                 Get(acc.case_total_score, cid, 0) + contrib),
         case_site |->
             IF site # "" THEN Put(acc.case_site, cid, site) ELSE acc.case_site,
         case_best_score |->
             IF first THEN Put(acc.case_best_score, cid, contrib)
             ELSE acc.case_best_score,
         case_best_payload |->
             IF first THEN Put(acc.case_best_payload, cid, payload)
             ELSE acc.case_best_payload]

\* One pass of the loop "for cid, contrib in top_cases" for input chunk i.
aggregate_case(acc, i, cid, contrib, payload) ==
    LET site == payload.primary_site
        better == contrib > Get(acc.case_best_score, cid, 0)
    IN  [case_supported_by_chunks |->
             Put(acc.case_supported_by_chunks, cid,
                 Get(acc.case_supported_by_chunks, cid, {}) \cup {i}),
         case_total_score |->
             Put(acc.case_total_score, cid,
                 Get(acc.case_total_score, cid, 0) + contrib),
         case_site |->
             IF site # "" THEN Put(acc.case_site, cid, site) ELSE acc.case_site,
         case_best_score |->
             \* the defaultdict read creates the key
             Put(acc.case_best_score, cid,
                 IF better THEN contrib ELSE Get(acc.case_best_score, cid, 0)),
         case_best_payload |->
             IF better THEN Put(acc.case_best_payload, cid, payload)
             ELSE acc.case_best_payload]

RECURSIVE AggregateTop(_, _, _, _)
AggregateTop(acc, i, top, red) ==
    IF top = <<>> THEN acc
    ELSE LET cid == Head(top)
         IN  AggregateTop(
                 aggregate_case(acc, i, cid, red.best_case_this_chunk.val[cid],
                                Get(red.best_payload_this_chunk, cid, EmptyPayload)),
                 i, Tail(top), red)

\* Mutant of process_chunk: the hits without payload, case_id or
\* primary_site dropped before the cut to k_fused, not after it.
process_chunk_skip_then_cut(acc, i, input_section, dense_pts, sparse_pts, k_fused, max_cases) ==
    LET fuse == rrf_fuse(dense_pts, sparse_pts, RRF_K)
        usable == SelectSeq(fuse.fused_ids,
                            LAMBDA pid : /\ pid \in DOMAIN fuse.id2payload
                                         /\ fuse.id2payload[pid].case_id # ""
                                         /\ fuse.id2payload[pid].primary_site # "")
        red == best_per_case(Prefix(usable, k_fused), fuse,
                             w_section(input_section))
    IN  AggregateTop(acc, i, top_cases(red.best_case_this_chunk, max_cases), red)

\* Everything the loop body does with the answers of input chunk i.
process_chunk(acc, i, input_section, dense_pts, sparse_pts, k_fused, max_cases) ==
    LET fuse == rrf_fuse(dense_pts, sparse_pts, RRF_K)
        red == best_per_case(Prefix(fuse.fused_ids, k_fused), fuse,
                             w_section(input_section))
    IN  AggregateTop(acc, i, top_cases(red.best_case_this_chunk, max_cases), red)

\* ------------------------------------------------------------------------
\* Final case scores
\* ------------------------------------------------------------------------
\* Mutant of clinical_quality_boost: the generic penalty applied once for a
\* text with generic content, however many patterns it matches.
clinical_quality_boost_flat_penalty(payload) ==
    LET sec == Upper(payload.section)
        base == IF sec \in {"IHC", "DIAGNOSIS", "SYNOPTIC"} THEN <<23, 20>>
                ELSE IF sec \in {"GROSS", "MICRO", "SPECIMEN"} THEN <<9, 10>>
                ELSE <<1, 1>>
        generic_hits == Min(payload.chunk_text.generic, 1)
        strong_hits == payload.chunk_text.strong
    IN  Frac(base[1] * Pow(23, generic_hits) * Pow(53, strong_hits),
             base[2] * Pow(25, generic_hits) * Pow(50, strong_hits))

\* The multiplicative quality factor, as a fraction in lowest terms:
\* 1.15 = 23/20, 0.90 = 9/10, 0.92 = 23/25, 1.06 = 53/50.
clinical_quality_boost(payload) ==
    LET sec == Upper(payload.section)
        base == IF sec \in {"IHC", "DIAGNOSIS", "SYNOPTIC"} THEN <<23, 20>>
                ELSE IF sec \in {"GROSS", "MICRO", "SPECIMEN"} THEN <<9, 10>>
                ELSE <<1, 1>>
        generic_hits == payload.chunk_text.generic
        strong_hits == payload.chunk_text.strong
    IN  Frac(base[1] * Pow(23, generic_hits) * Pow(53, strong_hits),
             base[2] * Pow(25, generic_hits) * Pow(50, strong_hits))

\* Mutant of consistency_bonus: a bonus for every supporting chunk, the
\* first included.
consistency_bonus_per_chunk(support) == BonusScale + CONSISTENCY_BONUS * support

\* 1.0 + CONSISTENCY_BONUS * max(0, support - 1), in fifths.
consistency_bonus(support) == BonusScale + CONSISTENCY_BONUS * Max(0, support - 1)

\* float(base_sum) * float(bonus) * float(qual)
final_score(base_sum, support, payload) ==
    LET qual == clinical_quality_boost(payload)
    IN  base_sum * consistency_bonus(support) * (qual[1] * (QualScale \div qual[2]))

RECURSIVE FinalFrom(_, _, _)
FinalFrom(out, cids, acc) ==
    IF cids = <<>> THEN out
    ELSE LET cid == Head(cids)
         IN  FinalFrom(
                 Put(out, cid,
                     final_score(acc.case_total_score.val[cid],
                                 Cardinality(Get(acc.case_supported_by_chunks, cid, {})),
                                 Get(acc.case_best_payload, cid, EmptyPayload))),
                 Tail(cids), acc)

final_case_scores(acc) == FinalFrom(EmptyDict, acc.case_total_score.keys, acc)

\* ------------------------------------------------------------------------
\* Aggregation by primary site (before calibration)
\* ------------------------------------------------------------------------
RECURSIVE SitesFrom(_, _, _, _)
SitesFrom(out, cids, final, case_site) ==
    IF cids = <<>> THEN out
    ELSE LET cid == Head(cids)
             site == Get(case_site, cid, "")
         IN  SitesFrom(
                 IF site # "" THEN Put(out, site, Get(out, site, 0) + final.val[cid])
                 ELSE out,
                 Tail(cids), final, case_site)

\* Mutant of aggregate_sites: "site_scores[site] = sc" for "+=", so that a
\* site keeps the score of the last of its cases.
RECURSIVE SitesFromLast(_, _, _, _)
SitesFromLast(sofar, cids, final, case_site) ==
    IF cids = <<>> THEN sofar
    ELSE LET cid == Head(cids)
             site == Get(case_site, cid, "")
         IN  SitesFromLast(
                 IF site # "" THEN Put(sofar, site, final.val[cid]) ELSE sofar,
                 Tail(cids), final, case_site)

aggregate_sites_overwriting(final, case_site) == SitesFromLast(EmptyDict, final.keys, final, case_site)

aggregate_sites(final, case_site) == SitesFrom(EmptyDict, final.keys, final, case_site)

\* ------------------------------------------------------------------------
\* Evidence
\* ------------------------------------------------------------------------
\* Mutant of snippet_len: the text taken whole.
snippet_len_whole_text(txt) == txt.len

\* (txt[:220] + "...") if len(txt) > 220 else txt, kept as its length.
snippet_len(txt) == IF txt.len > SNIPPET_LEN THEN SNIPPET_LEN + 3 ELSE txt.len

evidence_item(cid, sc, payload) ==
    [case_id |-> IF payload.case_id # "" THEN payload.case_id ELSE cid,
     score |-> sc,
     section |-> payload.section,
     snippet |-> snippet_len(payload.chunk_text)]

RECURSIVE EvidenceFrom(_, _, _, _)
EvidenceFrom(out, cids, final, acc) ==
    IF cids = <<>> THEN out
    ELSE LET cid == Head(cids)
             site == Get(acc.case_site, cid, "")
             item == evidence_item(cid, final.val[cid],
                                   Get(acc.case_best_payload, cid, EmptyPayload))
         IN  EvidenceFrom(
                 IF site # "" THEN Put(out, site, Append(Get(out, site, <<>>), item))
                 ELSE out,
                 Tail(cids), final, acc)

\* Mutant of top_evidence: the list cut without being sorted.
top_evidence_unsorted(items, limit) == Prefix(items, limit)

\* sorted(evidence, key=score, reverse=True)[:limit]
top_evidence(items, limit) ==
    LET order == SortedDesc([n \in 1..Len(items) |-> n],
                            [n \in 1..Len(items) |-> items[n].score])
    IN  Prefix([n \in 1..Len(items) |-> items[order[n]]], limit)

\* Mutant of build_evidence: only the items with a strong section are
\* kept, so that a site can be left without a list.
build_evidence_strong_only(final, acc, limit) ==
    LET pool == EvidenceFrom(EmptyDict, final.keys, final, acc)
        strong(site) == SelectSeq(pool.val[site],
                                  LAMBDA item : is_strong_section(item.section))
        sites == SelectSeq(pool.keys, LAMBDA site : strong(site) # <<>>)
    IN  [keys |-> sites,
         val |-> [site \in Range(sites) |-> top_evidence(strong(site), limit)]]

build_evidence(final, acc, limit) ==
    LET pool == EvidenceFrom(EmptyDict, final.keys, final, acc)
    IN  [keys |-> pool.keys,
         val |-> [site \in Range(pool.keys) |-> top_evidence(pool.val[site], limit)]]

\* ------------------------------------------------------------------------
\* Calibration and normalisation
\* ------------------------------------------------------------------------
strong_counts(evidence_by_site) ==
    [keys |-> evidence_by_site.keys,
     val |-> [site \in Range(evidence_by_site.keys) |->
                Cardinality({n \in 1..Len(evidence_by_site.val[site]) :
                    is_strong_section(evidence_by_site.val[site][n].section)})]]

\* Mutant of calibrated_score: the threshold test written <= instead of <.
calibrated_score_le(score, strong_count) ==
    IF strong_count <= CALIBRATION_STRONG_MIN
    THEN score * CALIBRATION_PENALTY
    ELSE score * PenaltyScale

\* Mutant of calibrated_score: the penalty graded by the number of strong
\* evidence items (0.5 for none, 0.75 for one).
calibrated_score_graded(score, strong_count) ==
    IF strong_count = 0 THEN score * 2
    ELSE IF strong_count < CALIBRATION_STRONG_MIN
         THEN score * CALIBRATION_PENALTY
         ELSE score * PenaltyScale

\* Mutant of calibrated_score: one strong evidence item is enough to escape
\* the penalty.
calibrated_score_one_suffices(score, strong_count) ==
    IF strong_count < 1
    THEN score * CALIBRATION_PENALTY
    ELSE score * PenaltyScale

\* site_scores[site] *= 0.75 for the sites with fewer than 2 strong evidence
\* items.  The result is in quarters of the unit of the argument.
calibrated_score(score, strong_count) ==
    IF strong_count < CALIBRATION_STRONG_MIN
    THEN score * CALIBRATION_PENALTY
    ELSE score * PenaltyScale

calibrate(site_scores, site_strong_counts) ==
    [keys |-> site_scores.keys,
     val |-> [site \in Range(site_scores.keys) |->
                calibrated_score(site_scores.val[site],
                                 Get(site_strong_counts, site, 0))]]

\* Mutant of normalize: the percentages cut to whole numbers.
normalize_truncating(site_scores) ==
    LET total == DictSum(site_scores)
    IN  IF total > 0
        THEN [keys |-> site_scores.keys,
              val |-> [site \in Range(site_scores.keys) |->
                         LET p == Percent(site_scores.val[site], total)
                         IN  <<p[1] \div p[2], 1>>]]
        ELSE EmptyDict

\* Mutant of normalize: a default site answered when nothing scored.
normalize_fallback(site_scores) ==
    LET total == DictSum(site_scores)
    IN  IF total > 0
        THEN [keys |-> site_scores.keys,
              val |-> [site \in Range(site_scores.keys) |->
                         Percent(site_scores.val[site], total)]]
        ELSE Put(EmptyDict, "unknown", <<100, 1>>)

\* pct = {s: v / total * 100.0} if total > 0 else {}
normalize(site_scores) ==
    LET total == DictSum(site_scores)
    IN  IF total > 0
        THEN [keys |-> site_scores.keys,
              val |-> [site \in Range(site_scores.keys) |->
                         Percent(site_scores.val[site], total)]]
        ELSE EmptyDict

\* A common denominator of the percentages of pct.
RECURSIVE DenFrom(_, _)
DenFrom(sites, pct) ==
    IF sites = <<>> THEN 1
    ELSE LCM(pct.val[Head(sites)][2], DenFrom(Tail(sites), pct))

DictDen(pct) == DenFrom(pct.keys, pct)

\* Mutant of sort_sites: the sort without reverse=True.
sort_sites_ascending(pct) ==
    LET order == SortedDesc(pct.keys,
                            [site \in Range(pct.keys) |->
                                0 - pct.val[site][1] * (DictDen(pct) \div pct.val[site][2])])
    IN  [n \in 1..Len(order) |-> <<order[n], pct.val[order[n]]>>]

\* sorted(pct.items(), key=percentage, reverse=True)
sort_sites(pct) ==
    LET order == SortedDesc(pct.keys,
                            [site \in Range(pct.keys) |->
                                pct.val[site][1] * (DictDen(pct) \div pct.val[site][2])])
    IN  [n \in 1..Len(order) |-> <<order[n], pct.val[order[n]]>>]

\* ------------------------------------------------------------------------
\* The whole prediction as a function of the backend's answers
\* ------------------------------------------------------------------------
\* The loop over the input chunks; chunks[j] holds the section of input
\* chunk j-1 and the two answers it got.
RECURSIVE RunChunks(_, _, _)
RunChunks(a, chunks, j) ==
    IF j > Len(chunks) THEN a
    ELSE RunChunks(process_chunk(a, j - 1, chunks[j].section, chunks[j].dense,
                                 chunks[j].sparse, K_FUSED,
                                 MAX_CASES_PER_INPUT_CHUNK),
                   chunks, j + 1)

\* Everything after the loop, with max_evidence as MAX_EVIDENCE_PER_SITE.
finish(a, max_evidence) ==
    LET final == final_case_scores(a)
        sites == aggregate_sites(final, a.case_site)
        evidence == build_evidence(final, a, max_evidence)
        counts == strong_counts(evidence)
        percent == normalize(calibrate(sites, counts))
    IN  [case_final_score |-> final,
         site_scores |-> sites,
         evidence |-> evidence,
         site_strong_counts |-> counts,
         pct |-> percent,
         sorted_sites |-> sort_sites(percent)]

predict(chunks, max_evidence) == finish(RunChunks(EmptyAcc, chunks, 1), max_evidence)

\* ------------------------------------------------------------------------
\* State of one run of predict_primary_site
\* ------------------------------------------------------------------------
VARIABLES
    meta,                \* the meta table: the section of each input chunk
    n_dense,             \* dense.shape[0]
    n_indices,           \* len(sp_indices)
    n_values,            \* len(sp_values)
    pc,                  \* where the run stands
    i,                   \* the loop index (zero-based)
    dense_pts,           \* the dense answer for chunk i
    sparse_pts,          \* the sparse answer for chunk i
    fused,               \* rrf_fuse's result for chunk i, fused_ids cut to K_FUSED
    acc,                 \* the five case-level dicts
    case_final_score,
    site_scores,
    evidence_by_site,
    site_strong_counts,
    pct,
    sorted_sites,
    raised,              \* the exception that ended the run ("" for none)
    queries,             \* backend: the number of query_points calls received
    failed,              \* backend: the number of those calls that raised
    responses,           \* backend: per finished chunk, its section and answers
    arg,                 \* a function applied on its own: its arguments
    out,                 \* ... and its result
    calls,               \* biocup_runner: the generate_results requests in flight
    input_csv,           \* biocup_runner: the revision whose row cases.csv holds
    revisions,           \* biocup_runner: the revision documents
    results_col,         \* routes_results: the stored results
    loop_owner,          \* the request that holds the event loop in blocking code
    present,             \* biocup_runner: the pipeline scripts that exist on disk
    submits,             \* routes_submit: the submit requests in flight
    rev_docs,            \* routes_submit: the revision documents of the patient
    active_revision,     \* routes_submit: the patient's active_revision
    rf_pc,               \* diagnostic_refine: where run_iterative_refinement stands
    rf_in,               \* diagnostic_refine: its arguments
    rf_predictions,      \* diagnostic_refine: the predictions made, in order
    rf_pred_final,       \* diagnostic_refine: pred_final
    rf_upserts           \* qdrant_upsert_validated: the cases written to the corpus

vars == <<corpus, meta, n_dense, n_indices, n_values, pc, i, dense_pts, sparse_pts,
          fused, acc, case_final_score, site_scores, evidence_by_site,
          site_strong_counts, pct, sorted_sites, raised, queries, failed, responses,
          arg, out, calls, input_csv, revisions, results_col, loop_owner, present,
          submits, rev_docs, active_revision,
          rf_pc, rf_in, rf_predictions, rf_pred_final, rf_upserts>>

pipeline_vars == <<calls, input_csv, revisions, results_col, loop_owner, present>>

submit_vars == <<submits, rev_docs, active_revision>>

refine_vars == <<rf_pc, rf_in, rf_predictions, rf_pred_final, rf_upserts>>

\* The application around the engine.
services == <<pipeline_vars, submit_vars, refine_vars>>

\* What a run never touches: the variables of the function-level checks
\* and of the application.
unit == <<arg, out, services>>

\* No request of the application is in flight.
PipelineIdle ==
    /\ calls = <<>>
    /\ input_csv = 0
    /\ revisions = <<>>
    /\ results_col = <<>>
    /\ loop_owner = 0
    /\ present = {}

SubmitIdle ==
    /\ submits = <<>>
    /\ rev_docs = <<>>
    /\ active_revision = 0

RefineIdle ==
    /\ rf_pc = "idle"
    /\ rf_in = <<>>
    /\ rf_predictions = <<>>
    /\ rf_pred_final = ""
    /\ rf_upserts = <<>>

inputs == <<meta, n_dense, n_indices, n_values>>

finals == <<case_final_score, site_scores, evidence_by_site,
            site_strong_counts, pct, sorted_sites>>

N == Len(meta)

input_section == meta[i + 1]

\* The points the backend has answered so far in this run.
HitsUsed ==
    SeqSum([n \in 1..Len(responses) |->
                Len(responses[n].dense) + Len(responses[n].sparse)])
    + (IF pc = "sparse" THEN Len(dense_pts) ELSE 0)

NoFuse == [fused_ids |-> <<>>, id2score |-> <<>>, id2payload |-> <<>>]

Init ==
    /\ corpus = Corpus
    /\ arg = <<>>
    /\ out = <<>>
    /\ PipelineIdle /\ SubmitIdle /\ RefineIdle
    /\ meta \in UNION {[1..n -> InputSections] : n \in 0..MaxChunks}
    /\ n_dense \in 0..MaxChunks
    /\ n_indices \in 0..MaxChunks
    /\ n_values \in 0..MaxChunks
    /\ pc = "load"
    /\ i = 0
    /\ dense_pts = <<>>
    /\ sparse_pts = <<>>
    /\ fused = NoFuse
    /\ acc = EmptyAcc
    /\ case_final_score = EmptyDict
    /\ site_scores = EmptyDict
    /\ evidence_by_site = EmptyDict
    /\ site_strong_counts = EmptyDict
    /\ pct = EmptyDict
    /\ sorted_sites = <<>>
    /\ raised = ""
    /\ queries = 0
    /\ failed = 0
    /\ responses = <<>>

\* Mutant of aligned: only the dense array compared with the meta table.
aligned_dense_only == n_dense = N

\* assert dense.shape[0] == N == len(sp_indices) == len(sp_values)
aligned == n_dense = N /\ N = n_indices /\ n_indices = n_values

\* Where the loop "for i in range(N)" goes with index j.
LoopTo(j) == IF j < N THEN "dense" ELSE "final"

\* Loading the inputs and the alignment assertion.
Load ==
    /\ pc = "load"
    /\ IF aligned
       THEN pc' = LoopTo(0) /\ raised' = ""
       ELSE pc' = "error" /\ raised' = "AssertionError"
    /\ UNCHANGED <<corpus, unit, inputs, i, dense_pts, sparse_pts, fused, acc, finals,
                   queries, failed, responses>>

\* client.query_points(..., using="dense", limit=K_DENSE) answers.
QueryDense ==
    /\ pc = "dense"
    /\ corpus' = after_query(corpus)
    /\ \E answer \in QueryAnswers(build_filter_for_input_chunk(input_section),
                                  K_DENSE, MaxTotalHits - HitsUsed) :
          dense_pts' = answer
    /\ queries' = queries + 1
    /\ pc' = "sparse"
    /\ UNCHANGED <<unit, inputs, i, sparse_pts, fused, acc, finals, raised, failed,
                   responses>>

\* Mutant of query_failed: the exception caught and the answer taken as
\* empty ("except Exception: pts = []").
query_swallowed ==
    /\ raised' = raised
    /\ IF pc = "dense"
       THEN /\ pc' = "sparse"
            /\ dense_pts' = <<>>
            /\ UNCHANGED <<sparse_pts, responses>>
       ELSE /\ pc' = "fuse"
            /\ sparse_pts' = <<>>
            /\ responses' = Append(responses,
                                   [section |-> input_section,
                                    dense |-> dense_pts, sparse |-> <<>>])
            /\ UNCHANGED dense_pts

\* What the run does when query_points raises: no try/except surrounds
\* the call, so the exception leaves predict_primary_site.
query_failed ==
    /\ pc' = "error"
    /\ raised' = "QueryError"
    /\ UNCHANGED <<dense_pts, sparse_pts, responses>>

QueryDenseFails ==
    /\ pc = "dense"
    /\ corpus' = after_query(corpus)
    /\ queries' = queries + 1
    /\ failed' = failed + 1
    /\ query_failed
    /\ UNCHANGED <<unit, inputs, i, fused, acc, finals>>

\* client.query_points(..., using="sparse", limit=K_SPARSE) answers.
QuerySparse ==
    /\ pc = "sparse"
    /\ corpus' = after_query(corpus)
    /\ \E answer \in QueryAnswers(build_filter_for_input_chunk(input_section),
                                  K_SPARSE, MaxTotalHits - HitsUsed) :
          /\ sparse_pts' = answer
          /\ responses' = Append(responses,
                                 [section |-> input_section,
                                  dense |-> dense_pts, sparse |-> answer])
    /\ queries' = queries + 1
    /\ pc' = "fuse"
    /\ UNCHANGED <<unit, inputs, i, dense_pts, fused, acc, finals, raised, failed>>

QuerySparseFails ==
    /\ pc = "sparse"
    /\ corpus' = after_query(corpus)
    /\ queries' = queries + 1
    /\ failed' = failed + 1
    /\ query_failed
    /\ UNCHANGED <<unit, inputs, i, fused, acc, finals>>

\* Mutant of Fuse: the fused ids sorted by score with ids of equal score in
\* any order (an unstable sort, or ids iterated out of a set).
Fuse_ties_in_any_order ==
    /\ pc = "fuse"
    /\ LET f == rrf_fuse(dense_pts, sparse_pts, RRF_K)
           ids == f.fused_ids
       IN  IF ids = <<>>
           THEN fused' = f
           ELSE \E perm \in Permutations(1..Len(ids)) :
                   LET order == [n \in 1..Len(ids) |-> ids[perm[n]]]
                   IN  /\ \A a, b \in 1..Len(ids) :
                             a < b => f.id2score[order[a]] >= f.id2score[order[b]]
                       /\ fused' = [f EXCEPT !.fused_ids = Prefix(order, K_FUSED)]
    /\ pc' = "reduce"
    /\ UNCHANGED <<corpus, unit, inputs, i, dense_pts, sparse_pts, acc, finals, raised,
                   queries, failed, responses>>

\* fused_ids, id2rrf, id2payload = rrf_fuse(...); fused_ids = fused_ids[:K_FUSED]
Fuse ==
    /\ pc = "fuse"
    /\ fused' = LET f == rrf_fuse(dense_pts, sparse_pts, RRF_K)
                IN  [f EXCEPT !.fused_ids = Prefix(f.fused_ids, K_FUSED)]
    /\ pc' = "reduce"
    /\ UNCHANGED <<corpus, unit, inputs, i, dense_pts, sparse_pts, acc, finals, raised,
                   queries, failed, responses>>

\* The reduction to the best hit per case, the cut to the top cases and
\* their aggregation, then the next loop index.
ReduceChunk ==
    /\ pc = "reduce"
    /\ acc' = LET red == best_per_case(fused.fused_ids, fused,
                                       w_section(input_section))
              IN  AggregateTop(acc, i,
                      top_cases(red.best_case_this_chunk, MAX_CASES_PER_INPUT_CHUNK),
                      red)
    /\ i' = i + 1
    /\ pc' = LoopTo(i + 1)
    /\ UNCHANGED <<corpus, unit, inputs, dense_pts, sparse_pts, fused, finals, raised,
                   queries, failed, responses>>

FinalScores ==
    /\ pc = "final"
    /\ case_final_score' = final_case_scores(acc)
    /\ pc' = "sites"
    /\ UNCHANGED <<corpus, unit, inputs, i, dense_pts, sparse_pts, fused, acc, site_scores,
                   evidence_by_site, site_strong_counts, pct, sorted_sites,
                   raised, queries, failed, responses>>

AggregateSites ==
    /\ pc = "sites"
    /\ site_scores' = aggregate_sites(case_final_score, acc.case_site)
    /\ pc' = "evidence"
    /\ UNCHANGED <<corpus, unit, inputs, i, dense_pts, sparse_pts, fused, acc, case_final_score,
                   evidence_by_site, site_strong_counts, pct, sorted_sites,
                   raised, queries, failed, responses>>

BuildEvidence ==
    /\ pc = "evidence"
    /\ evidence_by_site' = build_evidence(case_final_score, acc, MAX_EVIDENCE_PER_SITE)
    /\ pc' = "calibrate"
    /\ UNCHANGED <<corpus, unit, inputs, i, dense_pts, sparse_pts, fused, acc, case_final_score,
                   site_scores, site_strong_counts, pct, sorted_sites,
                   raised, queries, failed, responses>>

\* site_scores is multiplied in place; from here it is in quarters of its
\* former unit.
Calibrate ==
    /\ pc = "calibrate"
    /\ site_strong_counts' = strong_counts(evidence_by_site)
    /\ site_scores' = calibrate(site_scores, strong_counts(evidence_by_site))
    /\ pc' = "normalize"
    /\ UNCHANGED <<corpus, unit, inputs, i, dense_pts, sparse_pts, fused, acc, case_final_score,
                   evidence_by_site, pct, sorted_sites, raised, queries, failed, responses>>

\* Mutant of Normalize: the percentages computed from the site scores as
\* they were summed, before the calibration penalty.
Normalize_unpenalised ==
    /\ pc = "normalize"
    /\ pct' = normalize(aggregate_sites(case_final_score, acc.case_site))
    /\ sorted_sites' = sort_sites(normalize(aggregate_sites(case_final_score,
                                                            acc.case_site)))
    /\ pc' = "done"
    /\ UNCHANGED <<corpus, unit, inputs, i, dense_pts, sparse_pts, fused, acc, case_final_score,
                   site_scores, evidence_by_site, site_strong_counts,
                   raised, queries, failed, responses>>

\* The percentages, their sorted list, and the return.
Normalize ==
    /\ pc = "normalize"
    /\ pct' = normalize(site_scores)
    /\ sorted_sites' = sort_sites(normalize(site_scores))
    /\ pc' = "done"
    /\ UNCHANGED <<corpus, unit, inputs, i, dense_pts, sparse_pts, fused, acc, case_final_score,
                   site_scores, evidence_by_site, site_strong_counts,
                   raised, queries, failed, responses>>

Next ==
    \/ Load
    \/ QueryDense
    \/ QueryDenseFails
    \/ QuerySparse
    \/ QuerySparseFails
    \/ Fuse
    \/ ReduceChunk
    \/ FinalScores
    \/ AggregateSites
    \/ BuildEvidence
    \/ Calibrate
    \/ Normalize

Spec == Init /\ [][Next]_vars

\* ------------------------------------------------------------------------
\* Functions applied on their own
\*
\* UnitSpec applies one function of search.py to arguments drawn from
\* bounded sets: arg holds the arguments, out the result, pc which function
\* is applied; the variables of a run stay as they are before a run.
\* ------------------------------------------------------------------------
MaxUnitCases == 4   \* at most this many cases in the arguments of site_stage

CaseNames == <<"A", "B", "C", "D", "E", "F", "G", "H">>

\* Everything from the site aggregation to the sorted percentages
\* (search.py 370-424), from the final case scores and the accumulators.
site_stage(final, a, max_evidence) ==
    LET sites == aggregate_sites(final, a.case_site)
        evidence == build_evidence(final, a, max_evidence)
        counts == strong_counts(evidence)
        calibrated == calibrate(sites, counts)
        percent == normalize(calibrated)
    IN  [site_scores |-> calibrated,
         evidence |-> evidence,
         site_strong_counts |-> counts,
         pct |-> percent,
         sorted_sites |-> sort_sites(percent)]

\* The final score of a case in tenths, its site and the section of its
\* best payload.
CaseChoices ==
    {[score |-> sc, site |-> st[1], section |-> st[2]] :
        sc \in {2, 3, 4, 5},
        st \in {<<"lung", "IHC">>, <<"lung", "LYMPH_NODES">>,
                 <<"breast", "DIAGNOSIS">>}}

\* The state after the loop in which the cases CaseNames[1..Len(cs)] hold
\* the scores, sites and best payloads cs.
site_arg(cs) ==
    LET names == SubSeq(CaseNames, 1, Len(cs))
        at(c) == cs[Pos(names, c)]
    IN  [final |-> [keys |-> names,
                    val |-> [c \in Range(names) |-> at(c).score]],
         case_site |-> [keys |-> names,
                        val |-> [c \in Range(names) |-> at(c).site]],
         case_best_payload |->
             [keys |-> names,
              val |-> [c \in Range(names) |->
                         Payload(c, at(c).site, at(c).section, Text(0, 0, 40),
                                 TRUE, FALSE, FALSE)]]]

SiteArgs ==
    {site_arg(cs) : cs \in UNION {[1..n -> CaseChoices] : n \in 0..MaxUnitCases}}

\* The scored cases of build_evidence: more of them at one site than an
\* evidence list holds.
MaxEvidenceCases == 7

EvidenceChoices ==
    {[score |-> 2, site |-> "lung", section |-> "IHC"],
     [score |-> 3, site |-> "lung", section |-> "LYMPH_NODES"],
     [score |-> 4, site |-> "lung", section |-> "IHC"],
     [score |-> 3, site |-> "breast", section |-> "DIAGNOSIS"]}

EvidenceArgs ==
    {site_arg(cs) : cs \in UNION {[1..n -> EvidenceChoices] : n \in 0..MaxEvidenceCases}}

\* The calibrated site scores given to the normalisation: up to
\* MaxSortSites sites in any order of insertion, each with a score.
MaxSortSites == 3

SortSiteNames == {"lung", "breast", "colon"}

SortArgs ==
    UNION {{[keys |-> ks, val |-> v] : v \in [Range(ks) -> 1..3]} :
              ks \in DistinctSeqs(SortSiteNames, MaxSortSites)}

\* ------------------------------------------------------------------------
\* search_final.py: the variant of predict_primary_site that
\* diagnostic_refine.py imports
\* ------------------------------------------------------------------------
final_SECTION_WEIGHT ==
    [IHC |-> 24, DIAGNOSIS |-> 20, SYNOPTIC |-> 15, LYMPH_NODES |-> 12,
     MARGINS |-> 11, GENERAL |-> 7, COMMENT |-> 6]

final_w_section(section) ==
    LET sec == Upper(IF section = "" THEN "GENERAL" ELSE section)
    IN  IF sec \in DOMAIN final_SECTION_WEIGHT
        THEN final_SECTION_WEIGHT[sec] ELSE WeightScale

final_build_filter(section) ==
    LET sec == Upper(IF section = "" THEN "GENERAL" ELSE section)
    IN  IF sec = "IHC" THEN Filter({"IHC", "DIAGNOSIS"}, "has_ihc")
        ELSE Filter({"DIAGNOSIS", "SYNOPTIC", "IHC"}, "")

\* A collection in which a case is indexed by two chunks of different
\* sections.
FinalCorpus ==
    [pid \in 1..3 |->
        CASE pid = 1 -> Payload("A", "lung", "DIAGNOSIS", Text(0, 0, 120), TRUE, FALSE, FALSE)
          [] pid = 2 -> Payload("A", "lung", "IHC", Text(0, 0, 300), TRUE, FALSE, FALSE)
          [] pid = 3 -> Payload("B", "breast", "DIAGNOSIS", Text(0, 0, 40), TRUE, FALSE, FALSE)]

FinalAnswers(flt, limit) ==
    DistinctSeqs({pid \in DOMAIN FinalCorpus : Matches(flt, FinalCorpus[pid])}, limit)

\* rrf_fuse of search_final.py: ids, score, payload.
final_rrf_fuse(dense_points, sparse_points, k) ==
    LET seen == dense_points \o
                SelectSeq(sparse_points, LAMBDA p : p \notin Range(dense_points))
        score == [pid \in Range(seen) |->
                     RankTerms(dense_points, pid, k) + RankTerms(sparse_points, pid, k)]
    IN  [ids |-> SortedDesc(seen, score),
         score |-> score,
         payload |-> [pid \in Range(seen) |-> FinalCorpus[pid]]]

FinalEmpty ==
    [case_score |-> EmptyDict, case_chunks |-> EmptyDict,
     case_payload |-> EmptyDict, case_site |-> EmptyDict]

\* "for pid in fused[:K_FUSED]": per_case starts empty for every input
\* chunk; case_payload and case_site are those of the whole run.
RECURSIVE FinalReduce(_, _, _, _)
FinalReduce(st, ids, fuse, sec_w) ==
    IF ids = <<>> THEN st
    ELSE
      LET pid == Head(ids)
          pl == fuse.payload[pid]
          cid == pl.case_id
          site == pl.primary_site
          sc == fuse.score[pid] * sec_w
          next ==
            IF pl = EmptyPayload THEN st
            ELSE IF cid = "" \/ site = "" THEN st
            ELSE IF sc > Get(st.per_case, cid, 0)
                 THEN [per_case |-> Put(st.per_case, cid, sc),
                       case_payload |-> Put(st.case_payload, cid, pl),
                       case_site |-> Put(st.case_site, cid, site)]
                 ELSE st
      IN  FinalReduce(next, Tail(ids), fuse, sec_w)

\* "for cid, sc in sorted(per_case.items(), ...)[:MAX_CASES_PER_INPUT_CHUNK]"
RECURSIVE FinalAdd(_, _, _, _)
FinalAdd(st, top, per_case, j) ==
    IF top = <<>> THEN st
    ELSE LET cid == Head(top)
         IN  FinalAdd([st EXCEPT
                          !.case_score = Put(st.case_score, cid,
                                             Get(st.case_score, cid, 0) + per_case.val[cid]),
                          !.case_chunks = Put(st.case_chunks, cid,
                                              Get(st.case_chunks, cid, {}) \cup {j})],
                      Tail(top), per_case, j)

\* The loop body for input chunk j (zero-based).
final_chunk(st, j, chunk, k_fused, max_cases) ==
    LET fuse == final_rrf_fuse(chunk.dense, chunk.sparse, RRF_K)
        red == FinalReduce([per_case |-> EmptyDict,
                            case_payload |-> st.case_payload,
                            case_site |-> st.case_site],
                           Prefix(fuse.ids, k_fused), fuse,
                           final_w_section(chunk.section))
    IN  FinalAdd([st EXCEPT !.case_payload = red.case_payload,
                            !.case_site = red.case_site],
                 top_cases(red.per_case, max_cases), red.per_case, j)

RECURSIVE FinalChunks(_, _, _, _)
FinalChunks(st, chunks, j, max_cases) ==
    IF j > Len(chunks) THEN st
    ELSE FinalChunks(final_chunk(st, j - 1, chunks[j], K_FUSED, max_cases),
                     chunks, j + 1, max_cases)

\* predict_primary_site of search_final.py up to the evidence, as a
\* function of the sections of the input chunks and the answers to their
\* queries.  Scores are in units of 1 / (RRFScale * WeightScale * BonusScale).
final_predict(chunks, max_cases) ==
    LET st == FinalChunks(FinalEmpty, chunks, 1, max_cases)
        final_case_score ==
            [keys |-> st.case_score.keys,
             val |-> [cid \in Range(st.case_score.keys) |->
                        st.case_score.val[cid]
                        * (BonusScale + Cardinality(st.case_chunks.val[cid]) - 1)]]
        holder == [EmptyAcc EXCEPT !.case_site = st.case_site,
                                   !.case_best_payload = st.case_payload]
    IN  [case_score |-> st.case_score,
         case_chunks |-> st.case_chunks,
         case_payload |-> st.case_payload,
         case_site |-> st.case_site,
         final_case_score |-> final_case_score,
         site_score |-> aggregate_sites(final_case_score, st.case_site),
         evidence |-> build_evidence(final_case_score, holder, MAX_EVIDENCE_PER_SITE)]

\* The input chunks of a run of the variant with the answers they got.
MaxFinalChunks == 2

FinalChunkChoices ==
    UNION {{[section |-> sec, dense |-> d, sparse |-> sp] :
               d \in FinalAnswers(final_build_filter(sec), Min(K_DENSE, MaxHits)),
               sp \in FinalAnswers(final_build_filter(sec), 1)} :
           sec \in InputSections}

FinalArgs ==
    {[chunks |-> cs, max_cases |-> mc] :
        cs \in UNION {[1..n -> FinalChunkChoices] : n \in 0..MaxFinalChunks},
        mc \in {1, MAX_CASES_PER_INPUT_CHUNK}}

\* The sections an input chunk can carry in the meta table ("" for a
\* missing one), in the spellings that occur.
FilterInputs ==
    {"IHC", "ihc", "LYMPH_NODES", "LYMPH", "lymph", "MARGINS", "SYNOPTIC",
     "synoptic", "DIAGNOSIS", "diagnosis", "GROSS", "MICRO", "GENERAL", ""}

\* The payloads of corpus points, as far as a filter reads them.
FilterPayloads ==
    {[Payload("A", "lung", sec, Text(0, 0, 40), ihc, lymph, noise)
         EXCEPT !.has_margins = margins] :
        sec \in {"IHC", "DIAGNOSIS", "SYNOPTIC", "LYMPH_NODES", "MARGINS", "GROSS"},
        ihc \in BOOLEAN, lymph \in BOOLEAN, margins \in BOOLEAN,
        noise \in BOOLEAN}

FilterArgs ==
    {[input_section |-> sec, payload |-> pl] :
        sec \in FilterInputs, pl \in FilterPayloads}

\* Chunk texts and sections a payload can carry.
QualityTexts ==
    {"", "Margins negative. Tumor size 2 cm.", "gross description", "pN0",
     "Specimen received", "HER2 positive", "TTF-1 and napsin A",
     "ER positive, PR negative", "tumor size, pT2, CK7"}

QualitySections ==
    {"IHC", "DIAGNOSIS", "diagnosis", "SYNOPTIC", "GROSS", "MICRO", "SPECIMEN",
     "LYMPH_NODES", "MARGINS", "COMMENT", "GENERAL", ""}

QualityArgs ==
    {[section |-> sec, chunk_text |-> txt] :
        sec \in QualitySections, txt \in QualityTexts}

\* The cuts of the loop body, at the values of the source and at values
\* that two answers of at most MaxHits points can exceed.
FusedLimits == {1, 2, K_FUSED}

CaseLimits == {1, 2, MAX_CASES_PER_INPUT_CHUNK}

\* An input chunk's section, two answers the backend can give to its
\* queries, and the cuts.
chunk_args(sec) ==
    LET flt == build_filter_for_input_chunk(sec)
    IN  {[input_section |-> sec, dense |-> d, sparse |-> sp,
          k_fused |-> kf, max_cases |-> mc] :
            d \in QueryAnswers(flt, K_DENSE, MaxHits),
            sp \in QueryAnswers(flt, K_SPARSE, MaxHits),
            kf \in FusedLimits, mc \in CaseLimits}

ChunkArgs == UNION {chunk_args(sec) : sec \in InputSections}

\* The variables of a run, as they are before a run.
Idle ==
    /\ corpus = Corpus
    /\ meta = <<>>
    /\ n_dense = 0
    /\ n_indices = 0
    /\ n_values = 0
    /\ i = 0
    /\ dense_pts = <<>>
    /\ sparse_pts = <<>>
    /\ fused = NoFuse
    /\ acc = EmptyAcc
    /\ case_final_score = EmptyDict
    /\ site_scores = EmptyDict
    /\ evidence_by_site = EmptyDict
    /\ site_strong_counts = EmptyDict
    /\ pct = EmptyDict
    /\ sorted_sites = <<>>
    /\ raised = ""
    /\ queries = 0
    /\ failed = 0
    /\ responses = <<>>

run_state == <<corpus, inputs, i, dense_pts, sparse_pts, fused, acc, finals, raised,
             queries, failed, responses>>

UnitInit ==
    /\ Idle
    /\ PipelineIdle /\ SubmitIdle /\ RefineIdle
    /\ out = <<>>
    /\ \/ pc = "site_stage" /\ arg \in SiteArgs
       \/ pc = "filter" /\ arg \in FilterArgs
       \/ pc = "quality" /\ arg \in QualityArgs
       \/ pc = "chunk" /\ arg \in ChunkArgs
       \/ pc = "build_evidence" /\ arg \in EvidenceArgs
       \/ pc = "sort_sites" /\ arg \in SortArgs
       \/ pc = "search_final" /\ arg \in FinalArgs

ApplySiteStage ==
    /\ pc = "site_stage"
    /\ out' = site_stage(arg.final,
                         [EmptyAcc EXCEPT !.case_site = arg.case_site,
                                          !.case_best_payload = arg.case_best_payload],
                         MAX_EVIDENCE_PER_SITE)
    /\ pc' = "applied_site_stage"
    /\ UNCHANGED <<arg, run_state, services>>

\* The filter built for an input section, and the backend's verdict with it
\* on one payload.
ApplyFilter ==
    /\ pc = "filter"
    /\ out' = LET flt == build_filter_for_input_chunk(arg.input_section)
              IN  [filter |-> flt, accepts |-> Matches(flt, arg.payload)]
    /\ pc' = "applied_filter"
    /\ UNCHANGED <<arg, run_state, services>>

\* clinical_quality_boost on a payload with the section and text of arg.
ApplyQuality ==
    /\ pc = "quality"
    /\ out' = clinical_quality_boost(
                  Payload("A", "lung", arg.section, TextOf(arg.chunk_text),
                          FALSE, FALSE, FALSE))
    /\ pc' = "applied_quality"
    /\ UNCHANGED <<arg, run_state, services>>

\* The loop body on the answers of one input chunk (index 0), from empty
\* accumulators: the fusion, and the accumulators after the chunk.
ApplyChunk ==
    /\ pc = "chunk"
    /\ out' = [fuse |-> rrf_fuse(arg.dense, arg.sparse, RRF_K),
               acc |-> process_chunk(EmptyAcc, 0, arg.input_section, arg.dense,
                                     arg.sparse, arg.k_fused, arg.max_cases)]
    /\ pc' = "applied_chunk"
    /\ UNCHANGED <<arg, run_state, services>>

\* The evidence lists of the sites, from the final scores, the sites and
\* the best payloads of the cases.
ApplyBuildEvidence ==
    /\ pc = "build_evidence"
    /\ out' = build_evidence(arg.final,
                             [EmptyAcc EXCEPT !.case_site = arg.case_site,
                                              !.case_best_payload = arg.case_best_payload],
                             MAX_EVIDENCE_PER_SITE)
    /\ pc' = "applied_build_evidence"
    /\ UNCHANGED <<arg, run_state, services>>

\* The percentages of the site scores and their sorted list.
ApplySortSites ==
    /\ pc = "sort_sites"
    /\ out' = [pct |-> normalize(arg), sorted_sites |-> sort_sites(normalize(arg))]
    /\ pc' = "applied_sort_sites"
    /\ UNCHANGED <<arg, run_state, services>>

\* A run of the variant of search_final.py.
ApplySearchFinal ==
    /\ pc = "search_final"
    /\ out' = final_predict(arg.chunks, arg.max_cases)
    /\ pc' = "applied_search_final"
    /\ UNCHANGED <<arg, run_state, services>>

UnitNext ==
    \/ ApplySiteStage
    \/ ApplyFilter
    \/ ApplyQuality
    \/ ApplyChunk
    \/ ApplyBuildEvidence
    \/ ApplySortSites
    \/ ApplySearchFinal

UnitSpec == UnitInit /\ [][UnitNext]_vars

\* ------------------------------------------------------------------------
\* biocup_runner.py and routes_results.py: generate_results requests on one
\* event loop.  An action is the code between two awaits: the database
\* operation awaited, then the code up to the next await.
\* ------------------------------------------------------------------------
MaxCalls == 2       \* requests in flight

MaxRevisions == 2   \* revision documents

CallIds == 1..MaxCalls

RevIds == 1..MaxRevisions

\* The steps of the pipeline, in the order of the run_script calls.
Steps == <<"chunker", "dense_embedding", "sparse_embedding", "search", "explain">>

\* A revision document: whether it exists, has a generated_report_text and
\* a case_id, and its biocup_pipeline.status ("" when it has none).
RevisionDocs ==
    {[exists |-> FALSE, text |-> FALSE, case_id |-> FALSE, status |-> ""],
     [exists |-> TRUE, text |-> FALSE, case_id |-> FALSE, status |-> ""],
     [exists |-> TRUE, text |-> TRUE, case_id |-> FALSE, status |-> ""],
     [exists |-> TRUE, text |-> TRUE, case_id |-> TRUE, status |-> ""]}

\* The engine stands still while the application is looked at.
engine == <<pc, arg, out, run_state>>

PipelineInit ==
    /\ Idle
    /\ pc = "pipeline"
    /\ arg = <<>>
    /\ out = <<>>
    /\ SubmitIdle /\ RefineIdle
    /\ calls \in [CallIds -> {[pc |-> "gen_find", revision |-> r, ran |-> <<>>, chunked |-> 0] :
                                r \in RevIds}]
    /\ input_csv = 0
    /\ revisions \in [RevIds -> RevisionDocs]
    /\ results_col = <<>>
    /\ loop_owner = 0
    /\ present \in {Range(Steps)} \cup {Range(Steps) \ {x} : x \in Range(Steps)}

\* generate_results, lines 21-35: the revision is looked up; 404 or 400
\* without it or its text; else run_biocup_pipeline starts and awaits its
\* own find_one.
GenerateResultsFind(c) ==
    /\ loop_owner = 0
    /\ calls[c].pc = "gen_find"
    /\ LET doc == revisions[calls[c].revision]
       IN  calls' = [calls EXCEPT ![c].pc =
                        IF doc.exists /\ doc.text THEN "run_find" ELSE "http_error"]
    /\ UNCHANGED <<engine, input_csv, revisions, results_col, loop_owner, present,
                   submit_vars, refine_vars>>

\* _append_or_overwrite_input_csv with APPEND = False: the file holds the
\* row of the revision written last.
written_csv(csv, revision) == revision

\* run_biocup_pipeline, lines 129-161: the revision is read; without a
\* case_id the update of line 145 is awaited; else the CSV is written and
\* the update of line 161 is awaited.
RunFind(c) ==
    /\ loop_owner = 0
    /\ calls[c].pc = "run_find"
    /\ LET doc == revisions[calls[c].revision]
       IN  IF ~doc.exists \/ ~doc.text
           THEN /\ calls' = [calls EXCEPT ![c].pc = "raised"]
                /\ UNCHANGED input_csv
           ELSE IF ~doc.case_id
           THEN /\ calls' = [calls EXCEPT ![c].pc = "set_case_id"]
                /\ UNCHANGED input_csv
           ELSE /\ calls' = [calls EXCEPT ![c].pc = "mark_running"]
                /\ input_csv' = written_csv(input_csv, calls[c].revision)
    /\ UNCHANGED <<engine, revisions, results_col, loop_owner, present,
                   submit_vars, refine_vars>>

\* Lines 145-161: the case_id is stored, the CSV written, the update of
\* line 161 awaited.
SetCaseId(c) ==
    /\ loop_owner = 0
    /\ calls[c].pc = "set_case_id"
    /\ revisions' = [revisions EXCEPT ![calls[c].revision].case_id = TRUE]
    /\ input_csv' = written_csv(input_csv, calls[c].revision)
    /\ calls' = [calls EXCEPT ![c].pc = "mark_running"]
    /\ UNCHANGED <<engine, results_col, loop_owner, present, submit_vars, refine_vars>>

\* Lines 161-178: status "running" is stored; the scripts are looked for
\* and FileNotFoundError leaves the call when one is missing; else the
\* blocking part begins.
MarkRunning(c) ==
    /\ loop_owner = 0
    /\ calls[c].pc = "mark_running"
    /\ revisions' = [revisions EXCEPT ![calls[c].revision].status = "running"]
    /\ IF present = Range(Steps)
       THEN /\ calls' = [calls EXCEPT ![c].pc = "scripts"]
            /\ loop_owner' = c
       ELSE /\ calls' = [calls EXCEPT ![c].pc = "raised"]
            /\ UNCHANGED loop_owner
    /\ UNCHANGED <<engine, input_csv, results_col, present, submit_vars, refine_vars>>

\* Mutant of RunStep: the exit code of a step is recorded and not looked at.
RunStep_ignoring_exit(c) ==
    /\ loop_owner = c
    /\ calls[c].pc = "scripts"
    /\ Len(calls[c].ran) < Len(Steps)
    /\ \E rc \in {0, 1} :
          LET name == Steps[Len(calls[c].ran) + 1]
              ran == Append(calls[c].ran, <<name, rc>>)
              last == Len(ran) = Len(Steps)
          IN  /\ calls' = [calls EXCEPT
                             ![c].ran = ran,
                             ![c].chunked = IF name = "chunker" THEN input_csv ELSE @,
                             ![c].pc = IF last THEN "mark_done" ELSE "scripts"]
              /\ loop_owner' = IF last THEN 0 ELSE c
    /\ UNCHANGED <<engine, input_csv, revisions, results_col, present,
                   submit_vars, refine_vars>>

\* run_script, lines 182-194: the next step runs in a subprocess that the
\* event loop waits for (communicate() blocks); the chunker reads
\* cases.csv; a non-zero exit raises RuntimeError; after the fifth step the
\* update of line 220 is awaited.
RunStep(c) ==
    /\ loop_owner = c
    /\ calls[c].pc = "scripts"
    /\ Len(calls[c].ran) < Len(Steps)
    /\ \E rc \in {0, 1} :
          LET name == Steps[Len(calls[c].ran) + 1]
              ran == Append(calls[c].ran, <<name, rc>>)
              last == Len(ran) = Len(Steps)
          IN  /\ calls' = [calls EXCEPT
                             ![c].ran = ran,
                             ![c].chunked = IF name = "chunker" THEN input_csv ELSE @,
                             ![c].pc = IF rc # 0 THEN "raised"
                                       ELSE IF last THEN "mark_done" ELSE "scripts"]
              /\ loop_owner' = IF rc # 0 \/ last THEN 0 ELSE c
    /\ UNCHANGED <<engine, input_csv, revisions, results_col, present,
                   submit_vars, refine_vars>>

\* Lines 220-225 and generate_results line 51: status "done" is stored,
\* the pipeline document returned, the insert of the result awaited.
MarkDone(c) ==
    /\ loop_owner = 0
    /\ calls[c].pc = "mark_done"
    /\ revisions' = [revisions EXCEPT ![calls[c].revision].status = "done"]
    /\ calls' = [calls EXCEPT ![c].pc = "insert_result"]
    /\ UNCHANGED <<engine, input_csv, results_col, loop_owner, present,
                   submit_vars, refine_vars>>

\* generate_results, lines 51-60: the result is stored for the revision
\* of the request.
InsertResult(c) ==
    /\ loop_owner = 0
    /\ calls[c].pc = "insert_result"
    /\ results_col' = Append(results_col,
                             [revision |-> calls[c].revision,
                              computed_from |-> calls[c].chunked])
    /\ calls' = [calls EXCEPT ![c].pc = "returned"]
    /\ UNCHANGED <<engine, input_csv, revisions, loop_owner, present,
                   submit_vars, refine_vars>>

PipelineNext ==
    \E c \in CallIds :
        \/ GenerateResultsFind(c)
        \/ RunFind(c)
        \/ SetCaseId(c)
        \/ MarkRunning(c)
        \/ RunStep(c)
        \/ MarkDone(c)
        \/ InsertResult(c)

PipelineSpec == PipelineInit /\ [][PipelineNext]_vars

\* ------------------------------------------------------------------------
\* routes_submit.py: submit requests for one patient of one doctor, on one
\* event loop.  An action is the database operation awaited and the code
\* up to the next await.
\* ------------------------------------------------------------------------
MaxSubmits == 2     \* submit requests in flight

MaxEarlier == 2     \* revisions the patient has before the requests

SubmitIds == 1..MaxSubmits

\* revisions_col.find(...).sort("revision", -1).to_list(1), then
\* (last[0]["revision"] + 1) if last else 1
RECURSIVE MaxOf(_)
MaxOf(revs) == IF revs = <<>> THEN 0 ELSE Max(Head(revs), MaxOf(Tail(revs)))

get_next_revision(docs) == IF docs = <<>> THEN 1 ELSE MaxOf(docs) + 1

SubmitInit ==
    /\ Idle
    /\ pc = "submit"
    /\ arg = <<>>
    /\ out = <<>>
    /\ PipelineIdle /\ RefineIdle
    /\ submits \in [SubmitIds -> {[pc |-> "find_patient", owned |-> o,
                                   endpoint |-> e, next_rev |-> 0] :
                                      o \in BOOLEAN,
                                      e \in {"submit", "submit-multipart"}}]
    /\ rev_docs \in {[n \in 1..k |-> n] : k \in 0..MaxEarlier}
    /\ active_revision = Len(rev_docs)

\* find_patient_owned: 404 for a patient of another doctor; else
\* get_next_revision is awaited.
FindPatient(q) ==
    /\ submits[q].pc = "find_patient"
    /\ submits' = [submits EXCEPT ![q].pc =
                      IF submits[q].owned THEN "get_next_revision" ELSE "http_error"]
    /\ UNCHANGED <<engine, pipeline_vars, rev_docs, active_revision, refine_vars>>

\* The answer of get_next_revision; the report and the chunks are built;
\* submit_patient awaits insert_one, submit_patient_multipart save_images.
GetNextRevision(q) ==
    /\ submits[q].pc = "get_next_revision"
    /\ submits' = [submits EXCEPT
                      ![q].next_rev = get_next_revision(rev_docs),
                      ![q].pc = IF submits[q].endpoint = "submit-multipart"
                                THEN "save_images" ELSE "insert_one"]
    /\ UNCHANGED <<engine, pipeline_vars, rev_docs, active_revision, refine_vars>>

\* save_images: the images are read and written; insert_one is awaited.
SaveImages(q) ==
    /\ submits[q].pc = "save_images"
    /\ submits' = [submits EXCEPT ![q].pc = "insert_one"]
    /\ UNCHANGED <<engine, pipeline_vars, rev_docs, active_revision, refine_vars>>

\* revisions_col.insert_one(rev_doc); the update of the patient is awaited.
InsertRevision(q) ==
    /\ submits[q].pc = "insert_one"
    /\ rev_docs' = Append(rev_docs, submits[q].next_rev)
    /\ submits' = [submits EXCEPT ![q].pc = "update_patient"]
    /\ UNCHANGED <<engine, pipeline_vars, active_revision, refine_vars>>

\* patients_col.update_one: active_revision = next_rev; the request returns.
SetActiveRevision(q) ==
    /\ submits[q].pc = "update_patient"
    /\ active_revision' = submits[q].next_rev
    /\ submits' = [submits EXCEPT ![q].pc = "returned"]
    /\ UNCHANGED <<engine, pipeline_vars, rev_docs, refine_vars>>

SubmitNext ==
    \E q \in SubmitIds :
        \/ FindPatient(q)
        \/ GetNextRevision(q)
        \/ SaveImages(q)
        \/ InsertRevision(q)
        \/ SetActiveRevision(q)

SubmitSpec == SubmitInit /\ [][SubmitNext]_vars

\* ------------------------------------------------------------------------
\* diagnostic_refine.py: run_iterative_refinement
\* ------------------------------------------------------------------------
\* Python's None, as a value of an optional argument or result.
None == "<None>"

\* The truth value Python gives a string or None.
Truthy(v) == v # None /\ v # ""

\* doctor_updates: None, an empty dict or a dict with entries.
UpdateChoices == {"None", "empty", "entries"}

\* dbg["sorted_sites"] of a prediction, as the sites in order.
SortedSitesChoices == {<<>>, <<"lung">>, <<"breast", "lung">>}

\* top_sites[0] if top_sites else None
top_site(sites) == IF sites = <<>> THEN None ELSE sites[1]

\* Mutant of chosen_primary: the validated site is not looked at.
chosen_primary_ignoring_validated(validated_primary_site, pred_final) ==
    IF Truthy(pred_final) THEN pred_final ELSE "unknown"

\* validated_primary_site or pred_final or "unknown"
chosen_primary(validated_primary_site, pred_final) ==
    IF Truthy(validated_primary_site) THEN validated_primary_site
    ELSE IF Truthy(pred_final) THEN pred_final
    ELSE "unknown"

RefineInit ==
    /\ Idle
    /\ pc = "refine"
    /\ arg = <<>>
    /\ out = <<>>
    /\ PipelineIdle /\ SubmitIdle
    /\ rf_pc = "initial_rebuild"
    /\ rf_in \in [doctor_updates : UpdateChoices,
                   validated : BOOLEAN,
                   validated_primary_site : {None, "", "colon"}]
    /\ rf_predictions = <<>>
    /\ rf_pred_final = None
    /\ rf_upserts = <<>>

\* The prediction made now: its run, whether the corpus it searched holds
\* the case of this call, and its sorted sites.
prediction(run_name, sites) ==
    [run |-> run_name, own_case_in_corpus |-> rf_upserts # <<>>, sorted_sites |-> sites]

\* Lines 366-367: the sections and the embeddings of the initial run.
RebuildInitial ==
    /\ rf_pc = "initial_rebuild"
    /\ rf_pc' = "initial_predict"
    /\ UNCHANGED <<engine, pipeline_vars, submit_vars, rf_in, rf_predictions,
                   rf_pred_final, rf_upserts>>

\* Lines 369-397: the initial prediction, its explanation, pred_final, and
\* the test of doctor_updates.
PredictInitial ==
    /\ rf_pc = "initial_predict"
    /\ \E sites \in SortedSitesChoices :
          /\ rf_predictions' = Append(rf_predictions, prediction("initial", sites))
          /\ rf_pred_final' = top_site(sites)
    /\ rf_pc' = IF rf_in.doctor_updates = "entries" THEN "refined_rebuild"
                ELSE "validation"
    /\ UNCHANGED <<engine, pipeline_vars, submit_vars, rf_in, rf_upserts>>

\* Lines 398-399: the sections with the updates and their embeddings.
RebuildRefined ==
    /\ rf_pc = "refined_rebuild"
    /\ rf_pc' = "refined_predict"
    /\ UNCHANGED <<engine, pipeline_vars, submit_vars, rf_in, rf_predictions,
                   rf_pred_final, rf_upserts>>

\* Lines 401-420: the refined prediction; pred_final = pred2.
PredictRefined ==
    /\ rf_pc = "refined_predict"
    /\ \E sites \in SortedSitesChoices :
          /\ rf_predictions' = Append(rf_predictions, prediction("refined", sites))
          /\ rf_pred_final' = top_site(sites)
    /\ rf_pc' = "validation"
    /\ UNCHANGED <<engine, pipeline_vars, submit_vars, rf_in, rf_upserts>>

\* Lines 423-439 with validated: the input case is written to the corpus
\* under the chosen site.
UpsertValidated ==
    /\ rf_pc = "validation"
    /\ rf_in.validated
    /\ rf_upserts' = Append(rf_upserts,
                            [primary_site |-> chosen_primary(rf_in.validated_primary_site,
                                                             rf_pred_final)])
    /\ rf_pc' = "returned"
    /\ UNCHANGED <<engine, pipeline_vars, submit_vars, rf_in, rf_predictions,
                   rf_pred_final>>

\* Lines 423 and 439 without validated.
ReturnUnvalidated ==
    /\ rf_pc = "validation"
    /\ ~rf_in.validated
    /\ rf_pc' = "returned"
    /\ UNCHANGED <<engine, pipeline_vars, submit_vars, rf_in, rf_predictions,
                   rf_pred_final, rf_upserts>>

\* A step raises (a script of the rebuild fails, the backend or the LLM
\* call raises): the exception leaves run_iterative_refinement.
RefineRaises ==
    /\ rf_pc \notin {"returned", "raised"}
    /\ rf_pc' = "raised"
    /\ UNCHANGED <<engine, pipeline_vars, submit_vars, rf_in, rf_predictions,
                   rf_pred_final, rf_upserts>>

RefineNext ==
    \/ RebuildInitial
    \/ PredictInitial
    \/ RebuildRefined
    \/ PredictRefined
    \/ UpsertValidated
    \/ ReturnUnvalidated
    \/ RefineRaises

RefineSpec == RefineInit /\ [][RefineNext]_vars

\* ------------------------------------------------------------------------
\* Vocabulary of the properties
\* ------------------------------------------------------------------------
AfterLoop == {"sites", "evidence", "calibrate", "normalize", "done"}

Cases == {Corpus[p].case_id : p \in DOMAIN Corpus} \ {""}

\* The sum of the percentages of p, on their common denominator.
PctSum(p) ==
    SeqSum([n \in 1..Len(p.keys) |->
                p.val[p.keys[n]][1] * (DictDen(p) \div p.val[p.keys[n]][2])])

\* The four input arrays have the same number of rows.
SameLengths ==
    /\ n_dense = Len(meta)
    /\ n_indices = Len(meta)
    /\ n_values = Len(meta)

\* Every answer of the backend so far was empty.
AllEmpty ==
    /\ \A n \in 1..Len(responses) :
          responses[n].dense = <<>> /\ responses[n].sparse = <<>>
    /\ dense_pts = <<>>
    /\ sparse_pts = <<>>

\* The hits of case c among the answers for the chunk being reduced.
CaseHits(c) ==
    {pid \in Range(dense_pts) \cup Range(sparse_pts) :
        Corpus[pid].case_id = c /\ Corpus[pid].primary_site # ""}

\* fused_score x section_weight of hit pid of the chunk being reduced.
HitContrib(pid) == fused.id2score[pid] * w_section(input_section)

\* Input chunk n (one-based) was answered with a hit of case c.
Retained(c, n) ==
    \E pid \in Range(responses[n].dense) \cup Range(responses[n].sparse) :
        Corpus[pid].case_id = c /\ Corpus[pid].primary_site # ""

SupportOf(c) == Cardinality({n \in 1..Len(responses) : Retained(c, n)})

\* The number of evidence items of site with a strong section.
StrongItems(evidence, site) ==
    IF Has(evidence, site)
    THEN Cardinality({n \in 1..Len(evidence.val[site]) :
             evidence.val[site][n].section \in {"IHC", "DIAGNOSIS", "SYNOPTIC"}})
    ELSE 0

\* ------------------------------------------------------------------------
\* C1: whenever the total of the calibrated site scores is > 0, the
\* returned percentages are site_score / total * 100 for every scored site
\* and sum to 100.
\* ------------------------------------------------------------------------
C1_ProbabilitiesSumTo100 ==
    (pc = "done" /\ DictSum(site_scores) > 0) =>
        /\ Range(pct.keys) = Range(site_scores.keys)
        /\ \A site \in Range(pct.keys) :
              pct.val[site] = Percent(site_scores.val[site], DictSum(site_scores))
        /\ PctSum(pct) = 100 * DictDen(pct)

\* Two sites returned, with percentages that are not whole numbers.
C1_Witness ==
    /\ pc = "done"
    /\ DictSum(site_scores) > 0
    /\ Len(pct.keys) = 2
    /\ \A site \in Range(pct.keys) : pct.val[site][2] > 1

\* ------------------------------------------------------------------------
\* C2: when every dense and sparse answer of every input chunk is empty
\* (also with no input chunk at all), the run ends without an error and
\* returns an empty percentage map and an empty sorted_sites list.
\* ------------------------------------------------------------------------
C2_ZeroHitsEmptyMap ==
    (AllEmpty /\ SameLengths /\ failed = 0) =>
        /\ pc # "error"
        /\ raised = ""
        /\ pc = "done" => (pct = EmptyDict /\ sorted_sites = <<>>)

\* A finished run of two or more input chunks that all got empty answers.
C2_Witness ==
    /\ pc = "done"
    /\ N >= 2
    /\ Len(responses) = N
    /\ AllEmpty
    /\ pct = EmptyDict

\* ------------------------------------------------------------------------
\* C3: while input chunk i is reduced, the total of every case grows at
\* most once: by nothing when the chunk has no hit of the case, else by the
\* contribution (fused score x section weight) of one hit of the case, and
\* that hit has the largest contribution among the case's hits in the chunk.
\* ------------------------------------------------------------------------
C3_IntraChunkDedup ==
    [][pc = "reduce" =>
        \A c \in Cases :
            LET inc == Get(acc'.case_total_score, c, 0)
                       - Get(acc.case_total_score, c, 0)
            IN  IF CaseHits(c) = {}
                THEN inc = 0
                ELSE \/ inc = 0 /\ Cardinality({d \in Cases : CaseHits(d) # {}})
                                      > MAX_CASES_PER_INPUT_CHUNK
                     \/ \E best \in CaseHits(c) :
                           /\ \A p \in CaseHits(c) : HitContrib(best) >= HitContrib(p)
                           /\ inc = HitContrib(best)]_vars

\* The first chunk was answered with both chunks of case A, at different
\* fused scores, and case A holds the larger contribution alone.
C3_Witness ==
    /\ i = 1
    /\ pc \in {"dense", "final"}
    /\ {1, 2} \subseteq DOMAIN fused.id2score
    /\ fused.id2score[1] # fused.id2score[2]
    /\ acc.case_total_score.val["A"] =
           Max(fused.id2score[1], fused.id2score[2]) * w_section(meta[1])

\* ------------------------------------------------------------------------
\* C4: the returned percentage map is the same for every order in which
\* the input chunks (each with its section and its answers) are processed.
\* ------------------------------------------------------------------------
C4_OrderIndependent ==
    pc = "done" =>
        \A f \in Permutations(1..Len(responses)) :
            predict([n \in 1..Len(responses) |-> responses[f[n]]],
                    MAX_EVIDENCE_PER_SITE).pct.val = pct.val

\* ------------------------------------------------------------------------
\* C5: after fusion the score map holds exactly the ids of the two lists,
\* each once; an id at zero-based ranks r_d and r_s scores
\* 1/(60+r_d+1) + 1/(60+r_s+1), an id of one list only that list's term.
\* ------------------------------------------------------------------------
C5_RRFScore ==
    pc = "reduce" =>
        LET ids == Range(dense_pts) \cup Range(sparse_pts)
        IN  /\ DOMAIN fused.id2score = ids
            /\ Len(fused.fused_ids) = Cardinality(ids)
            /\ Range(fused.fused_ids) = ids
            /\ \A pid \in ids :
                  LET sc == fused.id2score[pid]
                      \* 60 + r + 1 with r the zero-based rank
                      dd == 60 + (Pos(dense_pts, pid) - 1) + 1
                      ds == 60 + (Pos(sparse_pts, pid) - 1) + 1
                  IN  CASE pid \in Range(dense_pts) /\ pid \in Range(sparse_pts) ->
                               sc * dd * ds = RRFScale * (dd + ds)
                        [] pid \in Range(dense_pts) /\ pid \notin Range(sparse_pts) ->
                               sc * dd = RRFScale
                        [] OTHER -> sc * ds = RRFScale

\* One id stands in both lists at different ranks, another in one list only.
C5_Witness ==
    /\ pc = "reduce"
    /\ \E pid \in Range(dense_pts) \cap Range(sparse_pts) :
          Pos(dense_pts, pid) # Pos(sparse_pts, pid)
    /\ \E pid \in Range(dense_pts) : pid \notin Range(sparse_pts)

\* ------------------------------------------------------------------------
\* C6: the bonus factor is 1 + 0.20 x max(0, support - 1): 1.0 for support
\* 1, 1.40 for support 3, never decreasing; and every final case score is
\* total x bonus x quality with support the number of input chunks that
\* retained the case.
\* ------------------------------------------------------------------------
C6_ConsistencyBonus ==
    /\ consistency_bonus(1) = BonusScale
    /\ consistency_bonus(3) * 100 = 140 * BonusScale
    /\ \A support \in 1..MaxChunks :
          consistency_bonus(support + 1) >= consistency_bonus(support)
    /\ pc \in AfterLoop =>
          \A c \in Range(case_final_score.keys) :
              LET qual == clinical_quality_boost(acc.case_best_payload.val[c])
                  \* 1 + 0.20 x max(0, support - 1), in fifths
                  bonus5 == 5 + Max(0, SupportOf(c) - 1)
              IN  /\ BonusScale = 5
                  /\ QualScale % qual[2] = 0
                  /\ case_final_score.val[c] =
                        acc.case_total_score.val[c] * bonus5
                        * ((qual[1] * QualScale) \div qual[2])

\* A finished run in which three input chunks retained the same case.
C6_Witness ==
    /\ pc = "done"
    /\ \E c \in Range(case_final_score.keys) : SupportOf(c) = 3

\* ------------------------------------------------------------------------
\* C7: the calibration step multiplies the score of a site by 0.75 when
\* fewer than 2 of its evidence items have a section in {IHC, DIAGNOSIS,
\* SYNOPTIC} and leaves it unchanged otherwise, and no later step changes
\* a site score again.  (After the step the scores are in quarters.)
\* ------------------------------------------------------------------------
C7_CalibrationPenalty ==
    [][/\ pc = "calibrate" =>
            /\ site_scores'.keys = site_scores.keys
            /\ \A site \in Range(site_scores.keys) :
                  \* 0.75 and 1.0, in units of 1 / PenaltyScale
                  site_scores'.val[site] =
                      site_scores.val[site]
                      * (IF StrongItems(evidence_by_site, site) < 2
                         THEN (75 * PenaltyScale) \div 100
                         ELSE PenaltyScale)
       /\ pc \notin {"sites", "calibrate"} => site_scores' = site_scores]_vars

\* Calibration has run on a site with exactly 2 strong evidence items and a
\* site with exactly 1.
C7_Witness ==
    /\ pc = "normalize"
    /\ \E s1, s2 \in Range(site_scores.keys) :
          /\ StrongItems(evidence_by_site, s1) = 2
          /\ StrongItems(evidence_by_site, s2) = 1

\* ------------------------------------------------------------------------
\* C8 as claimed: for the same answers of the backend the returned
\* percentage map is the same for any value of MAX_EVIDENCE_PER_SITE.
\* ------------------------------------------------------------------------
C8_AnyEvidenceLimit ==
    pc = "done" =>
        \A limit \in 0..(MAX_EVIDENCE_PER_SITE + 1) :
            finish(acc, limit).pct = pct

\* C8 amended: the evidence lists act on the percentages only through the
\* calibration test "fewer than 2 strong evidence items": for the same
\* answers of the backend, the returned percentage map is the same for any
\* value of MAX_EVIDENCE_PER_SITE that leaves the outcome of that test the
\* same for every site.
C8_SameCalibrationSamePct ==
    pc = "done" =>
        \A limit \in 0..(MAX_EVIDENCE_PER_SITE + 1) :
            LET other == finish(acc, limit)
            IN  (\A site \in Range(other.site_scores.keys) :
                    (StrongItems(other.evidence, site) < 2)
                    <=> (StrongItems(evidence_by_site, site) < 2))
                => other.pct = pct

\* Two sites returned, and a smaller MAX_EVIDENCE_PER_SITE that changes an
\* evidence list and a strong count but no calibration test.
C8_Witness ==
    /\ pc = "done"
    /\ Len(pct.keys) = 2
    /\ \E limit \in 0..MAX_EVIDENCE_PER_SITE :
          LET other == finish(acc, limit)
          IN  /\ other.evidence # evidence_by_site
              /\ other.site_strong_counts # site_strong_counts
              /\ \A site \in Range(other.site_scores.keys) :
                    (StrongItems(other.evidence, site) < 2)
                    <=> (StrongItems(evidence_by_site, site) < 2)

\* ------------------------------------------------------------------------
\* C9: when the meta table, the dense array, the sparse index array and the
\* sparse value array do not all have the same length, the run ends with
\* the assertion error before any backend query, and returns nothing.
\* ------------------------------------------------------------------------
C9_MisalignedAborts ==
    ~SameLengths =>
        /\ pc \in {"load", "error"}
        /\ pc = "error" => raised = "AssertionError"
        /\ queries = 0
        /\ acc = EmptyAcc
        /\ pct = EmptyDict
        /\ sorted_sites = <<>>

\* The run was aborted although the dense array matches the meta table:
\* only the two sparse arrays differ.
C9_Witness ==
    /\ pc = "error"
    /\ raised = "AssertionError"
    /\ N > 0
    /\ n_dense = N
    /\ n_indices = N
    /\ n_values # N

\* ------------------------------------------------------------------------
\* C10: once a dense or sparse query has failed the run has ended with
\* that error and has returned no percentages and no trace; a run that
\* goes on after the loop got an answer to both queries of every chunk.
\* ------------------------------------------------------------------------
C10_QueryErrorsSurface ==
    /\ failed > 0 =>
          /\ pc = "error"
          /\ raised = "QueryError"
          /\ failed = 1
          /\ case_final_score = EmptyDict
          /\ site_scores = EmptyDict
          /\ evidence_by_site = EmptyDict
          /\ pct = EmptyDict
          /\ sorted_sites = <<>>
    /\ pc \in {"final"} \cup AfterLoop =>
          /\ failed = 0
          /\ Len(responses) = N
          /\ queries = 2 * N

\* The sparse query of the second chunk failed after the first chunk had
\* been aggregated: the scores gathered so far are not returned.
C10_Witness ==
    /\ pc = "error"
    /\ raised = "QueryError"
    /\ i = 1
    /\ dense_pts # <<>>
    /\ acc.case_total_score # EmptyDict
    /\ pct = EmptyDict

C12_CorpusUnchanged == corpus = Corpus

\* A finished run of two or more input chunks that issued all its queries,
\* got hits and returned percentages.
C12_Witness ==
    /\ pc = "done"
    /\ N >= 2
    /\ queries = 2 * N
    /\ ~AllEmpty
    /\ pct # EmptyDict
    /\ corpus = Corpus

\* ------------------------------------------------------------------------
\* C13.  The scenario: three cases of site lung with final scores 0.5, 0.3
\* and 0.2 and one case of site breast with final score 0.4, every best
\* payload from a section an IHC input chunk retrieves (IHC or DIAGNOSIS).
\* ------------------------------------------------------------------------
C13_Scenario ==
    /\ pc = "applied_site_stage"
    /\ LET cases == Range(arg.final.keys)
           lung == {c \in cases : arg.case_site.val[c] = "lung"}
           breast == {c \in cases : arg.case_site.val[c] = "breast"}
       IN  /\ Cardinality(lung) = 3
           /\ {arg.final.val[c] : c \in lung} = {5, 3, 2}
           /\ Cardinality(breast) = 1
           /\ {arg.final.val[c] : c \in breast} = {4}
           /\ \A c \in cases :
                 arg.case_best_payload.val[c].section \in {"IHC", "DIAGNOSIS"}

\* C13 as claimed: in the scenario every site has at least 2 strong evidence
\* items and the result is lung = 1.0/1.4 x 100 = 500/7 percent and
\* breast = 0.4/1.4 x 100 = 200/7 percent.
C13_ScenarioAsClaimed ==
    C13_Scenario =>
        /\ \A site \in {"lung", "breast"} : StrongItems(out.evidence, site) >= 2
        /\ out.pct.val["lung"] = <<500, 7>>
        /\ out.pct.val["breast"] = <<200, 7>>

\* C13 amended: in the scenario breast has one evidence item, so fewer than
\* 2 strong ones, and is penalised (0.4 x 0.75 = 0.3) while lung, with 3
\* strong items, is not: lung = 1.0/1.3 x 100 = 1000/13 percent (about
\* 76.92) and breast = 0.3/1.3 x 100 = 300/13 percent (about 23.08).
C13_ScenarioPenalised ==
    C13_Scenario =>
        /\ StrongItems(out.evidence, "lung") = 3
        /\ StrongItems(out.evidence, "breast") = 1
        /\ out.pct.keys = out.site_scores.keys
        /\ Range(out.pct.keys) = {"lung", "breast"}
        /\ out.pct.val["lung"][1] * 13 = 1000 * out.pct.val["lung"][2]
        /\ out.pct.val["breast"][1] * 13 = 300 * out.pct.val["breast"][2]

\* The scenario, with the breast case scored before the last lung case.
C13_Witness ==
    /\ C13_Scenario
    /\ arg.case_site.val[arg.final.keys[4]] = "lung"
    /\ Len(out.sorted_sites) = 2
    /\ out.sorted_sites[1][1] = "lung"

\* ------------------------------------------------------------------------
\* C14: the filter built for an input section accepts a corpus payload
\* exactly when the payload is not administrative noise and satisfies the
\* rule of the table for that section (spelled in either case): IHC ->
\* section in {IHC, DIAGNOSIS} and has_ihc; LYMPH_NODES or LYMPH ->
\* {LYMPH_NODES, SYNOPTIC, DIAGNOSIS} and has_lymph; MARGINS -> {MARGINS,
\* SYNOPTIC, DIAGNOSIS} and has_margins; SYNOPTIC -> {SYNOPTIC, DIAGNOSIS,
\* MARGINS, LYMPH_NODES}; DIAGNOSIS -> {DIAGNOSIS, SYNOPTIC}; any other ->
\* {DIAGNOSIS, SYNOPTIC, IHC, LYMPH_NODES, MARGINS}.
\* ------------------------------------------------------------------------
C14_FilterRuleTable ==
    pc = "applied_filter" =>
        LET sec == arg.input_section
            pl == arg.payload
            rule ==
              CASE sec \in {"IHC", "ihc"} ->
                      pl.section \in {"IHC", "DIAGNOSIS"} /\ pl.has_ihc
                [] sec \in {"LYMPH_NODES", "LYMPH", "lymph"} ->
                      /\ pl.section \in {"LYMPH_NODES", "SYNOPTIC", "DIAGNOSIS"}
                      /\ pl.has_lymph
                [] sec = "MARGINS" ->
                      /\ pl.section \in {"MARGINS", "SYNOPTIC", "DIAGNOSIS"}
                      /\ pl.has_margins
                [] sec \in {"SYNOPTIC", "synoptic"} ->
                      pl.section \in {"SYNOPTIC", "DIAGNOSIS", "MARGINS", "LYMPH_NODES"}
                [] sec \in {"DIAGNOSIS", "diagnosis"} ->
                      pl.section \in {"DIAGNOSIS", "SYNOPTIC"}
                [] OTHER ->
                      pl.section \in {"DIAGNOSIS", "SYNOPTIC", "IHC",
                                      "LYMPH_NODES", "MARGINS"}
        IN  /\ out.accepts <=> (rule /\ ~pl.is_admin_noise)
            /\ pl.is_admin_noise => ~out.accepts

\* The filter of a LYMPH chunk turned down a SYNOPTIC payload with has_lymph
\* that is administrative noise.
C14_Witness ==
    /\ pc = "applied_filter"
    /\ arg.input_section = "LYMPH"
    /\ arg.payload.section = "SYNOPTIC"
    /\ arg.payload.has_lymph
    /\ arg.payload.is_admin_noise
    /\ ~out.accepts

\* ------------------------------------------------------------------------
\* C15 as claimed: every evidence item's snippet is at most 220 characters
\* long.
\* ------------------------------------------------------------------------
C15_SnippetAtMost220 ==
    \A site \in Range(evidence_by_site.keys) :
        \A n \in 1..Len(evidence_by_site.val[site]) :
            evidence_by_site.val[site][n].snippet <= 220

\* C15 amended: a text of at most 220 characters is its own snippet; a
\* longer text is cut to its first 220 characters followed by the three
\* characters "...", so every snippet is at most 223 characters long.
C15_SnippetAtMost223 ==
    \A site \in Range(evidence_by_site.keys) :
        \A n \in 1..Len(evidence_by_site.val[site]) :
            LET item == evidence_by_site.val[site][n]
                text_len == acc.case_best_payload.val[item.case_id].chunk_text.len
            IN  /\ item.snippet <= 223
                /\ text_len <= 220 => item.snippet = text_len
                /\ text_len > 220 => item.snippet = 220 + 3

\* The evidence holds an item whose text of exactly 220 characters was left
\* as it is and an item whose text of 221 characters was cut.
C15_Witness ==
    /\ pc = "done"
    /\ \E s1, s2 \in Range(evidence_by_site.keys) :
          /\ \E n \in 1..Len(evidence_by_site.val[s1]) :
                LET item == evidence_by_site.val[s1][n]
                IN  /\ acc.case_best_payload.val[item.case_id].chunk_text.len = 220
                    /\ item.snippet = 220
          /\ \E n \in 1..Len(evidence_by_site.val[s2]) :
                LET item == evidence_by_site.val[s2][n]
                IN  /\ acc.case_best_payload.val[item.case_id].chunk_text.len = 221
                    /\ item.snippet = 223

\* ------------------------------------------------------------------------
\* C16: the quality factor of a payload is base x 0.92^g x 1.06^s with base
\* 1.15 (23/20) for a section in {IHC, DIAGNOSIS, SYNOPTIC}, 0.90 (9/10) for
\* {GROSS, MICRO, SPECIMEN} and 1 otherwise, g the number of generic
\* patterns and s the number of biomarker patterns that occur in the text
\* (0.92 = 23/25, 1.06 = 53/50); a text with g = 2 and s = 0 gets 0.8464
\* (529/625) times the base of its section.
\* ------------------------------------------------------------------------
\* The patterns that occur in each text of QualityTexts, counted by hand:
\* <<generic, biomarker>>.
PatternsIn(txt) ==
    CASE txt = "" -> <<0, 0>>
         \* "margins negative", "tumor size"
      [] txt = "Margins negative. Tumor size 2 cm." -> <<2, 0>>
         \* "gross description", and "pt" inside "description"
      [] txt = "gross description" -> <<2, 0>>
         \* "n0", "pn"
      [] txt = "pN0" -> <<2, 0>>
         \* "specimen received"
      [] txt = "Specimen received" -> <<1, 0>>
         \* "her2", and "er" inside it
      [] txt = "HER2 positive" -> <<0, 2>>
         \* "ttf-1", "napsin a"
      [] txt = "TTF-1 and napsin A" -> <<0, 2>>
         \* "er", "pr"
      [] txt = "ER positive, PR negative" -> <<0, 2>>
         \* "tumor size", "pt"; "ck7"
      [] txt = "tumor size, pT2, CK7" -> <<2, 1>>

C16_QualityBoost ==
    pc = "applied_quality" =>
        LET g == PatternsIn(arg.chunk_text)[1]
            s == PatternsIn(arg.chunk_text)[2]
            base == IF arg.section \in {"IHC", "DIAGNOSIS", "diagnosis", "SYNOPTIC"}
                    THEN <<23, 20>>
                    ELSE IF arg.section \in {"GROSS", "MICRO", "SPECIMEN"}
                         THEN <<9, 10>>
                         ELSE <<1, 1>>
        IN  /\ out = Frac(base[1] * Pow(23, g) * Pow(53, s),
                          base[2] * Pow(25, g) * Pow(50, s))
            /\ (g = 2 /\ s = 0) =>
                  /\ 529 * 10000 = 8464 * 625
                  /\ out[1] * base[2] * 625 = 529 * base[1] * out[2]

\* The factor of a DIAGNOSIS payload whose text matches two generic
\* patterns, one of them inside another word, and no biomarker pattern.
C16_Witness ==
    /\ pc = "applied_quality"
    /\ arg.section = "DIAGNOSIS"
    /\ arg.chunk_text = "gross description"
    /\ out = <<12167, 12500>>

\* ------------------------------------------------------------------------
\* Vocabulary of C17 and C18: one chunk applied on its own
\* ------------------------------------------------------------------------
\* Where an id was first seen: the dense list in its order, then the ids
\* that only the sparse list holds.
FirstSeen(pid) ==
    IF pid \in Range(arg.dense) THEN Pos(arg.dense, pid)
    ELSE Len(arg.dense) + Pos(arg.sparse, pid)

\* The ids passed to the reduction: the first k_fused of the fused order.
PassedOn ==
    {out.fuse.fused_ids[n] :
        n \in 1..Min(arg.k_fused, Len(out.fuse.fused_ids))}

\* A hit the reduction does not skip.
Usable(pid) == Corpus[pid].case_id # "" /\ Corpus[pid].primary_site # ""

\* The cases with a usable hit among the ids passed on, and the best
\* contribution (fused score x section weight) of such a case.
Candidates == {Corpus[pid].case_id : pid \in {p \in PassedOn : Usable(p)}}

ChunkContrib(c) ==
    LET hits == {p \in PassedOn : Usable(p) /\ Corpus[p].case_id = c}
        best == CHOOSE p \in hits :
                    \A q \in hits : out.fuse.id2score[p] >= out.fuse.id2score[q]
    IN  out.fuse.id2score[best] * w_section(arg.input_section)

\* The cases that got score or support from the chunk.
Scored ==
    Range(out.acc.case_total_score.keys)
    \cup Range(out.acc.case_supported_by_chunks.keys)

\* ------------------------------------------------------------------------
\* C17: the fused ids of a chunk stand in descending order of fused score,
\* ids of equal score in first-seen order; only the first K_FUSED of them
\* are reduced, the cut being made before hits without case_id or
\* primary_site are skipped: the cases that get a score are cases with a
\* usable hit among those first K_FUSED ids, scored by such a hit, and a
\* skipped hit among them is not replaced by a later one.
\* ------------------------------------------------------------------------
C17_FusedOrderAndCut ==
    pc = "applied_chunk" =>
        LET ids == out.fuse.fused_ids
            score == out.fuse.id2score
        IN  /\ Range(ids) = Range(arg.dense) \cup Range(arg.sparse)
            /\ Len(ids) = Cardinality(Range(ids))
            /\ \A a, b \in 1..Len(ids) :
                  a < b =>
                    \/ score[ids[a]] > score[ids[b]]
                    \/ /\ score[ids[a]] = score[ids[b]]
                       /\ FirstSeen(ids[a]) < FirstSeen(ids[b])
            /\ Cardinality(PassedOn) = Min(arg.k_fused, Cardinality(Range(ids)))
            /\ Scored \subseteq Candidates
            /\ Cardinality(Candidates) <= arg.max_cases => Scored = Candidates
            /\ \A c \in Scored :
                  out.acc.case_total_score.val[c] = ChunkContrib(c)

\* The cut fell on two ids of equal score and kept the one first seen, a
\* hit without case_id, so that the chunk scored no case although the
\* other id was a usable hit.
C17_Witness ==
    /\ pc = "applied_chunk"
    /\ arg.k_fused = 1
    /\ Len(out.fuse.fused_ids) = 2
    /\ out.fuse.id2score[out.fuse.fused_ids[1]] = out.fuse.id2score[out.fuse.fused_ids[2]]
    /\ ~Usable(out.fuse.fused_ids[1])
    /\ Usable(out.fuse.fused_ids[2])
    /\ Scored = {}

\* ------------------------------------------------------------------------
\* C18: of the cases a chunk could score, the chunk gives score and support
\* to at most MAX_CASES_PER_INPUT_CHUNK, none of them with a smaller
\* contribution than a case it drops; a retained case gets its contribution
\* and the chunk's index, a dropped case neither.
\* ------------------------------------------------------------------------
C18_TopCasesPerChunk ==
    pc = "applied_chunk" =>
        LET retained == Range(out.acc.case_total_score.keys)
        IN  /\ retained \subseteq Candidates
            /\ Cardinality(retained) = Min(arg.max_cases, Cardinality(Candidates))
            /\ \A r \in retained : \A d \in Candidates \ retained :
                  ChunkContrib(r) >= ChunkContrib(d)
            /\ \A r \in retained :
                  /\ out.acc.case_total_score.val[r] = ChunkContrib(r)
                  /\ out.acc.case_supported_by_chunks.val[r] = {0}
            /\ \A d \in Candidates \ retained :
                  /\ ~Has(out.acc.case_total_score, d)
                  /\ ~Has(out.acc.case_supported_by_chunks, d)
                  /\ ~Has(out.acc.case_best_payload, d)

\* Three cases had usable hits at three different contributions and the
\* chunk kept two of them.
C18_Witness ==
    /\ pc = "applied_chunk"
    /\ arg.max_cases = 2
    /\ Cardinality(Candidates) = 3
    /\ Cardinality(Range(out.acc.case_total_score.keys)) = 2
    /\ \A c, d \in Candidates : c # d => ChunkContrib(c) # ChunkContrib(d)

\* ------------------------------------------------------------------------
\* Vocabulary of C19: the finished chunks of a run
\* ------------------------------------------------------------------------
\* The usable hits of case c in the answers to input chunk n (one-based).
HitsIn(c, n) ==
    {pid \in Range(responses[n].dense) \cup Range(responses[n].sparse) :
        Corpus[pid].case_id = c /\ Corpus[pid].primary_site # ""}

\* fused score x section weight of hit pid of input chunk n.
ContribOf(pid, n) ==
    rrf_fuse(responses[n].dense, responses[n].sparse, RRF_K).id2score[pid]
        * w_section(responses[n].section)

\* The contribution of input chunk n to case c: that of c's best hit.
ContribIn(c, n) ==
    LET best == CHOOSE p \in HitsIn(c, n) :
                    \A q \in HitsIn(c, n) : ContribOf(p, n) >= ContribOf(q, n)
    IN  IF HitsIn(c, n) = {} THEN 0 ELSE ContribOf(best, n)

\* ------------------------------------------------------------------------
\* C19: after the last input chunk, for every case: the total score is the
\* sum of the contributions of the chunks that retained it, the support
\* set is the set of the indices of those chunks (between 1 and N of
\* them), the best contribution is the greatest of them, and the best
\* payload is the payload of a hit that made that contribution.
\* ------------------------------------------------------------------------
C19_CrossChunkAccumulators ==
    pc \in {"final"} \cup AfterLoop =>
        LET chunks == 1..Len(responses)
            seen == {c \in Cases : \E n \in chunks : HitsIn(c, n) # {}}
        IN  /\ Len(responses) = N
            /\ Range(acc.case_total_score.keys) = seen
            /\ Range(acc.case_supported_by_chunks.keys) = seen
            /\ Range(acc.case_best_score.keys) = seen
            /\ Range(acc.case_best_payload.keys) = seen
            /\ \A c \in seen :
                  LET kept == {n \in chunks : HitsIn(c, n) # {}}
                  IN  /\ acc.case_total_score.val[c]
                            = SeqSum([n \in chunks |-> ContribIn(c, n)])
                      /\ acc.case_supported_by_chunks.val[c]
                            = {n - 1 : n \in kept}
                      /\ Cardinality(acc.case_supported_by_chunks.val[c]) >= 1
                      /\ Cardinality(acc.case_supported_by_chunks.val[c]) <= N
                      /\ \A n \in kept :
                            acc.case_best_score.val[c] >= ContribIn(c, n)
                      /\ \E n \in kept :
                            /\ acc.case_best_score.val[c] = ContribIn(c, n)
                            /\ \E pid \in HitsIn(c, n) :
                                  /\ ContribOf(pid, n) = ContribIn(c, n)
                                  /\ acc.case_best_payload.val[c] = Corpus[pid]

\* A case was retained by two chunks, the later with the greater
\* contribution, and by no more than some of the chunks.
C19_Witness ==
    /\ pc = "final"
    /\ \E c \in Range(acc.case_total_score.keys) :
          /\ Cardinality(acc.case_supported_by_chunks.val[c]) = 2
          /\ \E m, n \in 1..Len(responses) :
                /\ m < n
                /\ HitsIn(c, m) # {} /\ HitsIn(c, n) # {}
                /\ ContribIn(c, m) < ContribIn(c, n)
                /\ acc.case_best_score.val[c] = ContribIn(c, n)
                /\ acc.case_total_score.val[c] = ContribIn(c, m) + ContribIn(c, n)

\* ------------------------------------------------------------------------
\* Vocabulary of C20: what is built when the calibration runs
\* ------------------------------------------------------------------------
\* The cases some input chunk of the run retained.
SeenCases ==
    {c \in Cases : \E n \in 1..Len(responses) : HitsIn(c, n) # {}}

\* Every input chunk is processed and every case has its final score.
FinalScoresBuilt ==
    /\ i = N
    /\ Len(responses) = N
    /\ Range(case_final_score.keys) = SeenCases
    /\ Range(acc.case_total_score.keys) = SeenCases

\* Every site of a scored case has its evidence list: its best cases, up
\* to MAX_EVIDENCE_PER_SITE of them.
EvidencePoolsBuilt ==
    /\ Range(evidence_by_site.keys)
          = {acc.case_site.val[c] : c \in Range(case_final_score.keys)}
    /\ \A site \in Range(evidence_by_site.keys) :
          LET of == {c \in Range(case_final_score.keys) :
                        acc.case_site.val[c] = site}
              items == evidence_by_site.val[site]
          IN  /\ Len(items) = Min(MAX_EVIDENCE_PER_SITE, Cardinality(of))
              /\ \A n \in 1..Len(items) :
                    /\ items[n].case_id \in of
                    /\ items[n].score = case_final_score.val[items[n].case_id]

\* The sum of the final scores of the cases of a site, and that sum after
\* the penalty (in units of 1 / PenaltyScale).
SummedScore(site) ==
    SeqSum([n \in 1..Len(case_final_score.keys) |->
              IF acc.case_site.val[case_final_score.keys[n]] = site
              THEN case_final_score.val[case_final_score.keys[n]] ELSE 0])

PenalisedScore(site) ==
    SummedScore(site)
    * (IF StrongItems(evidence_by_site, site) < 2
       THEN (75 * PenaltyScale) \div 100 ELSE PenaltyScale)

PenalisedTotal ==
    SeqSum([n \in 1..Len(site_scores.keys) |-> PenalisedScore(site_scores.keys[n])])

\* ------------------------------------------------------------------------
\* C20: the calibration penalty is applied when every input chunk is
\* processed, every case has its final score and every site its evidence
\* list, and while no probability is computed yet; no other step
\* penalises a score; the probabilities are computed afterwards, from the
\* penalised site scores.
\* ------------------------------------------------------------------------
C20_CalibrationOrder ==
    [][/\ pc = "calibrate" =>
            /\ FinalScoresBuilt
            /\ EvidencePoolsBuilt
            /\ \A site \in Range(site_scores.keys) :
                  site_scores.val[site] = SummedScore(site)
            /\ pct = EmptyDict /\ pct' = EmptyDict
            /\ \A site \in Range(site_scores.keys) :
                  site_scores'.val[site] = PenalisedScore(site)
       /\ pc \notin {"calibrate", "normalize", "done"} =>
            /\ pct' = EmptyDict
            /\ \A site \in Range(site_scores'.keys) :
                  site_scores'.val[site] = SummedScore(site)'
       /\ pct' # pct =>
            /\ pc = "normalize"
            /\ pct'.keys = site_scores.keys
            /\ \A site \in Range(site_scores.keys) :
                  /\ site_scores.val[site] = PenalisedScore(site)
                  /\ pct'.val[site] = Percent(PenalisedScore(site), PenalisedTotal)]_vars

\* A run over two or more input chunks returned probabilities for a site
\* that was penalised and a site that was not.
C20_Witness ==
    /\ pc = "done"
    /\ N >= 2
    /\ \E s1, s2 \in Range(pct.keys) :
          /\ StrongItems(evidence_by_site, s1) < 2
          /\ StrongItems(evidence_by_site, s2) >= 2
          /\ site_scores.val[s1] * 4 = SummedScore(s1) * 3 * PenaltyScale
          /\ site_scores.val[s2] = SummedScore(s2) * PenaltyScale

\* ------------------------------------------------------------------------
\* C21: every case with a final score has one site, the primary_site of
\* its best payload; before the calibration penalty the score of a site is
\* the sum of the final scores of the cases of that site, so that the site
\* scores and the final case scores have the same sum.  (The corpus keeps
\* one primary_site per case.)
\* ------------------------------------------------------------------------
C21_SiteScoreIsSumOfCases ==
    pc \in {"evidence", "calibrate"} =>
        LET scored == Range(case_final_score.keys)
            site_of(c) == acc.case_best_payload.val[c].primary_site
            sum_of(site) ==
                SeqSum([n \in 1..Len(case_final_score.keys) |->
                          IF site_of(case_final_score.keys[n]) = site
                          THEN case_final_score.val[case_final_score.keys[n]]
                          ELSE 0])
        IN  /\ \A c \in scored :
                  /\ Has(acc.case_site, c)
                  /\ Has(acc.case_best_payload, c)
                  /\ acc.case_site.val[c] = site_of(c)
                  /\ site_of(c) # ""
            /\ Range(site_scores.keys) = {site_of(c) : c \in scored}
            /\ Len(site_scores.keys) = Cardinality(Range(site_scores.keys))
            /\ \A site \in Range(site_scores.keys) :
                  site_scores.val[site] = sum_of(site)
            /\ DictSum(site_scores) = DictSum(case_final_score)

\* A site has two cases, one of them retained by two input chunks whose
\* best hits of the case are different payloads.
C21_Witness ==
    /\ pc = "evidence"
    /\ \E c, d \in Range(case_final_score.keys) :
          /\ c # d
          /\ acc.case_site.val[c] = acc.case_site.val[d]
          /\ \E m, n \in 1..Len(responses) :
                /\ m < n
                /\ HitsIn(c, m) # {} /\ HitsIn(c, n) # {}
                /\ \A p \in HitsIn(c, m), q \in HitsIn(c, n) :
                      Corpus[p] # Corpus[q]

\* ------------------------------------------------------------------------
\* C22: the evidence list of a site holds at most MAX_EVIDENCE_PER_SITE
\* items in descending order of score; each item is made from the best
\* payload of a different case of that site and carries that case's final
\* score; no case of the site outside the list has a higher score than a
\* case in it.
\* ------------------------------------------------------------------------
C22_EvidenceTopSix ==
    pc = "applied_build_evidence" =>
        LET scored == Range(arg.final.keys)
        IN  /\ Range(out.keys) = {arg.case_site.val[c] : c \in scored}
            /\ \A site \in Range(out.keys) :
                  LET items == out.val[site]
                      of == {c \in scored : arg.case_site.val[c] = site}
                      listed == {items[n].case_id : n \in 1..Len(items)}
                  IN  /\ Len(items) <= MAX_EVIDENCE_PER_SITE
                      /\ Len(items) = Min(MAX_EVIDENCE_PER_SITE, Cardinality(of))
                      /\ \A m, n \in 1..Len(items) :
                            m < n => items[m].score >= items[n].score
                      /\ Cardinality(listed) = Len(items)
                      /\ listed \subseteq of
                      /\ \A n \in 1..Len(items) :
                            LET c == items[n].case_id
                                payload == arg.case_best_payload.val[c]
                            IN  /\ items[n].score = arg.final.val[c]
                                /\ items[n].section = payload.section
                                /\ items[n].snippet = snippet_len(payload.chunk_text)
                      /\ \A c \in of \ listed : \A d \in listed :
                            arg.final.val[c] <= arg.final.val[d]

\* A site had seven scored cases, not in order of score; its list holds
\* six, and the case left out scored lower than a case in the list.
C22_Witness ==
    /\ pc = "applied_build_evidence"
    /\ Has(out, "lung")
    /\ Cardinality({c \in Range(arg.final.keys) : arg.case_site.val[c] = "lung"}) = 7
    /\ Len(out.val["lung"]) = MAX_EVIDENCE_PER_SITE
    /\ arg.final.val["A"] < arg.final.val["B"]
    /\ \E c \in Range(arg.final.keys) :
          /\ \A n \in 1..Len(out.val["lung"]) : out.val["lung"][n].case_id # c
          /\ arg.final.val[c] < out.val["lung"][1].score

\* ------------------------------------------------------------------------
\* C23: sorted_sites holds exactly the (site, probability) entries of the
\* probability map, each site once, in non-increasing order of probability.
\* ------------------------------------------------------------------------
C23_SortedSites ==
    pc = "applied_sort_sites" =>
        LET sorted == out.sorted_sites
        IN  /\ Len(sorted) = Cardinality(Range(out.pct.keys))
            /\ Range(sorted) = {<<site, out.pct.val[site]>> : site \in Range(out.pct.keys)}
            /\ \A m, n \in 1..Len(sorted) : m # n => sorted[m][1] # sorted[n][1]
            /\ \A m, n \in 1..Len(sorted) :
                  m < n => sorted[m][2][1] * sorted[n][2][2]
                             >= sorted[n][2][1] * sorted[m][2][2]

\* Three sites with three different probabilities, inserted in ascending
\* order of probability.
C23_Witness ==
    /\ pc = "applied_sort_sites"
    /\ Len(arg.keys) = 3
    /\ arg.val[arg.keys[1]] < arg.val[arg.keys[2]]
    /\ arg.val[arg.keys[2]] < arg.val[arg.keys[3]]
    /\ out.sorted_sites[1][1] = arg.keys[3]
    /\ out.sorted_sites[3][1] = arg.keys[1]

\* ------------------------------------------------------------------------
\* C25: when a run returns a probability map that is not empty, every
\* probability in it is greater than 0 and at most 100, and the sites of
\* the map are the sites with an evidence list, none of them empty.
\* ------------------------------------------------------------------------
C25_ProbabilitiesAndEvidenceSites ==
    (pc = "done" /\ pct # EmptyDict) =>
        /\ pct.keys # <<>>
        /\ \A site \in Range(pct.keys) :
              /\ pct.val[site][1] > 0
              /\ pct.val[site][2] > 0
              /\ pct.val[site][1] <= 100 * pct.val[site][2]
        /\ Range(pct.keys) = Range(evidence_by_site.keys)
        /\ \A site \in Range(evidence_by_site.keys) :
              Len(evidence_by_site.val[site]) >= 1

\* One run returned a single site at exactly 100; its evidence holds no
\* item with a strong section.
C25_Witness ==
    /\ pc = "done"
    /\ pct.keys = <<"lung">>
    /\ pct.val["lung"] = <<100, 1>>
    /\ evidence_by_site.keys = <<"lung">>
    /\ StrongItems(evidence_by_site, "lung") = 0

\* ------------------------------------------------------------------------
\* Vocabulary of C24: a run of the variant of search_final.py
\* ------------------------------------------------------------------------
\* The hits of case c in the answers to input chunk n (one-based) and the
\* contribution of one of them.
FinalHitsIn(c, n) ==
    {pid \in Range(arg.chunks[n].dense) \cup Range(arg.chunks[n].sparse) :
        FinalCorpus[pid].case_id = c}

FinalContribOf(pid, n) ==
    final_rrf_fuse(arg.chunks[n].dense, arg.chunks[n].sparse, RRF_K).score[pid]
        * final_w_section(arg.chunks[n].section)

\* Hit pid of input chunk n is the best of case c in the chunks that
\* retained c.
FinalBestHit(c, pid, n) ==
    /\ (n - 1) \in out.case_chunks.val[c]
    /\ pid \in FinalHitsIn(c, n)
    /\ \A m \in 1..Len(arg.chunks) :
          (m - 1) \in out.case_chunks.val[c] =>
              \A q \in FinalHitsIn(c, m) : FinalContribOf(pid, n) >= FinalContribOf(q, m)

\* ------------------------------------------------------------------------
\* C24: in the variant of search_final.py the stored payload of every
\* scored case is the payload of its best hit over the input chunks that
\* retained it, and the case's evidence item carries that payload's
\* section under that payload's site: a later chunk where the case scores
\* lower, or is cut from the top cases, does not replace it.
\* ------------------------------------------------------------------------
C24_FinalBestPayloadKept ==
    pc = "applied_search_final" =>
        \A c \in Range(out.case_score.keys) :
            \E n \in 1..Len(arg.chunks) : \E pid \in FinalHitsIn(c, n) :
                /\ FinalBestHit(c, pid, n)
                /\ out.case_payload.val[c] = FinalCorpus[pid]
                /\ out.case_site.val[c] = FinalCorpus[pid].primary_site
                /\ \E k \in 1..Len(out.evidence.val[out.case_site.val[c]]) :
                      LET item == out.evidence.val[out.case_site.val[c]][k]
                      IN  /\ item.case_id = c
                          /\ item.section = FinalCorpus[pid].section

\* ------------------------------------------------------------------------
\* C26: a call of run_biocup_pipeline runs chunker, dense_embedding,
\* sparse_embedding, search, explain in that order, each after the one
\* before it exited with 0 and none after a non-zero exit, and status
\* "done" is stored on a revision only by a call whose five steps all
\* exited with 0.
\* ------------------------------------------------------------------------
C26_StepsInOrder ==
    pc = "pipeline" =>
        /\ \A c \in CallIds :
              LET ran == calls[c].ran
              IN  /\ Len(ran) <= Len(Steps)
                  /\ \A n \in 1..Len(ran) :
                        /\ ran[n][1] = Steps[n]
                        /\ n < Len(ran) => ran[n][2] = 0
                  /\ (ran # <<>> /\ ran[Len(ran)][2] # 0) => calls[c].pc = "raised"
                  /\ calls[c].pc \in {"mark_done", "insert_result", "returned"} =>
                        /\ Len(ran) = Len(Steps)
                        /\ \A n \in 1..Len(ran) : ran[n][2] = 0
        /\ \A r \in RevIds :
              revisions[r].status = "done" =>
                  \E c \in CallIds :
                      /\ calls[c].revision = r
                      /\ calls[c].pc \in {"insert_result", "returned"}
                      /\ Len(calls[c].ran) = Len(Steps)
                      /\ \A n \in 1..Len(Steps) : calls[c].ran[n][2] = 0

\* One call returned after five steps and stored "done"; another was left
\* by the failure of its third step, with three steps run.
C26_Witness ==
    /\ pc = "pipeline"
    /\ \E c, d \in CallIds :
          /\ calls[c].pc = "returned"
          /\ Len(calls[c].ran) = 5
          /\ revisions[calls[c].revision].status = "done"
          /\ calls[d].pc = "raised"
          /\ Len(calls[d].ran) = 3
          /\ calls[d].ran[3] = <<"sparse_embedding", 1>>

\* ------------------------------------------------------------------------
\* C27: a revision in biocup_pipeline.status "running" has a call of
\* run_biocup_pipeline at work on it: a call that stored "running" and
\* ended, by returning or by raising, has not left the status "running".
\* ------------------------------------------------------------------------
C27_RunningHasLiveCall ==
    pc = "pipeline" =>
        \A r \in RevIds :
            revisions[r].status = "running" =>
                \E c \in CallIds :
                    /\ calls[c].revision = r
                    /\ calls[c].pc \in {"scripts", "mark_done"}

\* ------------------------------------------------------------------------
\* C28: the chunker of a call reads the cases.csv row that the same call
\* wrote, and every stored result was computed from the row of the
\* revision it is stored for.
\* ------------------------------------------------------------------------
C28_ChunkerReadsOwnRow ==
    pc = "pipeline" =>
        /\ \A c \in CallIds :
              calls[c].ran # <<>> => calls[c].chunked = calls[c].revision
        /\ \A n \in 1..Len(results_col) :
              results_col[n].computed_from = results_col[n].revision

\* ------------------------------------------------------------------------
\* C29: the revision documents of the patient carry the numbers 1, 2, 3,
\* ... each once, in the order of their insertion, also when submit
\* requests interleave; and when no request stands between its insert and
\* its update of the patient, active_revision is the highest number.
\* ------------------------------------------------------------------------
C29_RevisionsUniqueAndConsecutive ==
    pc = "submit" =>
        /\ \A n \in 1..Len(rev_docs) : rev_docs[n] = n
        /\ \A m, n \in 1..Len(rev_docs) : m # n => rev_docs[m] # rev_docs[n]
        /\ (\A q \in SubmitIds : submits[q].pc # "update_patient") =>
              active_revision = MaxOf(rev_docs)

\* ------------------------------------------------------------------------
\* C30: run_iterative_refinement writes the input case to the corpus only
\* when validated is true and after all its predictions have returned, so
\* that no prediction of the run searched a corpus holding the run's case;
\* the refined prediction is made only for doctor_updates with entries and
\* after the initial one; the site written is validated_primary_site when
\* one is given (a non-empty string), else the top site of the last
\* prediction made, else "unknown".
\* ------------------------------------------------------------------------
C30_RefinementOrder ==
    pc = "refine" =>
        LET made == Len(rf_predictions)
            due == IF rf_in.doctor_updates = "entries" THEN 2 ELSE 1
            given == rf_in.validated_primary_site \notin {None, ""}
        IN  /\ made <= due
            /\ \A n \in 1..made :
                  /\ rf_predictions[n].run = IF n = 1 THEN "initial" ELSE "refined"
                  /\ ~rf_predictions[n].own_case_in_corpus
            /\ rf_pc = "returned" => made = due
            /\ rf_upserts # <<>> =>
                  /\ rf_in.validated
                  /\ Len(rf_upserts) = 1
                  /\ made = due
                  /\ rf_pc = "returned"
                  /\ rf_upserts[1].primary_site =
                        IF given THEN rf_in.validated_primary_site
                        ELSE IF rf_predictions[made].sorted_sites # <<>>
                             THEN rf_predictions[made].sorted_sites[1]
                             ELSE "unknown"
            /\ (rf_pc = "returned" /\ rf_in.validated) => rf_upserts # <<>>

\* A validated run with updates and no validated site: the initial
\* prediction had a top site, the refined one had none, and the case was
\* written under "unknown".
C30_Witness ==
    /\ pc = "refine"
    /\ rf_pc = "returned"
    /\ rf_in.validated
    /\ rf_in.validated_primary_site = None
    /\ Len(rf_predictions) = 2
    /\ rf_predictions[1].sorted_sites = <<"lung">>
    /\ rf_predictions[2].sorted_sites = <<>>
    /\ rf_upserts = <<[primary_site |-> "unknown"]>>

====
